---------------------------- MODULE Spec2Model ----------------------------
(***************************************************************************)
(* The plugin execution runtime of storyden: archive validation and        *)
(* extraction, the runner registry, and the life of a subprocess session   *)
(* (StartPlugin / StopPlugin / Unload, the pumps and the dispatch loop).   *)
(*                                                                         *)
(* A path or an archive entry name is the sequence of its "/"-separated    *)
(* segments: "a/b" is <<"a","b">>, "/a" is <<"","a">>, "a/" is <<"a","">>, *)
(* the empty string is <<"">> and "/" is <<"","">>.                        *)
(***************************************************************************)
EXTENDS Integers, Sequences, FiniteSets, TLC

VARIABLES
    pathName,   \* SpecPath: the entry name handed to joinWithin
    pathRes,    \* SpecPath: what joinWithin returned for it
    bin,        \* SpecArchive, SpecExtract: the archive bytes under test
    ext,        \* SpecExtract: what extractSDXArchive(bin) returned
    fs,         \* the directories and files that exist
    registry,   \* sdxRunner.sessions: plugin id -> session handle, 0 when absent
    sess,       \* the sdxSession objects created so far, by handle
    ret,        \* the last Runner call and what it returned
    runs,       \* the runProcess goroutines started so far, with their pumps
    caller,     \* the thread inside StopPlugin or Unload
    cmds,       \* the correlation ids issued, and what became of each
    calls,      \* Spec: the Runner calls made so far
    wz,         \* the wazeroRunner that is given the same calls
    mgr,        \* the thread inside Manager.SetActiveState
    probe,      \* wazeroRunner.readPluginManifest: its goroutines and channels
    chat,       \* newChatHandler: one chat request and the events handed to its emitter
    store       \* sessionStorage: the stored messages of one session and the last Get

vars == <<pathName, pathRes, bin, ext, fs, registry, sess, ret, runs, caller, cmds, calls, wz, mgr, probe, chat, store>>

---------------------------------------------------------------------------
(* Bounds *)

MaxNameLen == 3     \* SpecPath: segments in an entry name
MaxEntries == 2     \* SpecArchive: entries in an archive
MaxSessions == 2    \* session objects created by Load
MaxRuns == 2        \* StartPlugin calls that find a session
MaxCmds == 1        \* commands sent to plugins
MaxLive == 1        \* runs whose dispatch loop and pumps are going at once
MaxCalls == 3       \* Spec: Runner calls (Load, GetSession, StartPlugin, StopPlugin, Unload)

---------------------------------------------------------------------------
(* Paths: path/filepath on a "/"-separated system *)

Segs == {"", ".", "..", "a", "main", "manifest.json"}

SeqsUpTo(S, n) == UNION {[1..k -> S] : k \in 1..n}

Root == <<"", "">>
TmpDir == <<"", "tmp">>
NoPath == <<>>

\* os.MkdirTemp("", "storyden-sdx-"): a fresh directory under the temp dir.
WorkDirOf(k) == <<"", "tmp", <<"storyden-sdx-1", "storyden-sdx-2", "storyden-sdx-3", "storyden-sdx-4">>[k]>>
WorkDir == WorkDirOf(1)

IsRooted(p) == Len(p) >= 2 /\ p[1] = ""

DropLast(s) == SubSeq(s, 1, Len(s) - 1)

\* The element stack filepath.Clean builds while it walks the segments:
\* empty segments and "." are skipped; ".." removes the element before it,
\* is dropped at the root of a rooted path, and is kept at the front of a
\* relative one.
RECURSIVE CleanStack(_, _, _, _)
CleanStack(p, i, rooted, stack) ==
    IF i > Len(p) THEN stack
    ELSE IF p[i] = "" \/ p[i] = "." THEN CleanStack(p, i + 1, rooted, stack)
    ELSE IF p[i] = ".." THEN
        IF stack # <<>> /\ stack[Len(stack)] # ".."
            THEN CleanStack(p, i + 1, rooted, DropLast(stack))
        ELSE IF rooted THEN CleanStack(p, i + 1, rooted, stack)
        ELSE CleanStack(p, i + 1, rooted, Append(stack, ".."))
    ELSE CleanStack(p, i + 1, rooted, Append(stack, p[i]))

Clean(p) ==
    LET rooted == IsRooted(p)
        stack == CleanStack(p, 1, rooted, <<>>)
    IN IF rooted THEN (IF stack = <<>> THEN Root ELSE <<"">> \o stack)
       ELSE IF stack = <<>> THEN <<".">> ELSE stack

\* filepath.Join(base, name): empty elements are ignored, the rest joined
\* with "/" and cleaned.
Join(base, name) ==
    IF name = <<"">> THEN Clean(base) ELSE Clean(base \o name)

RECURSIVE StripTrailingSlashes(_)
StripTrailingSlashes(p) ==
    IF Len(p) > 1 /\ p[Len(p)] = "" THEN StripTrailingSlashes(DropLast(p)) ELSE p

\* filepath.Base: the last element, trailing slashes removed; "." for the
\* empty path and "/" for a path of slashes only.
Base(p) ==
    IF p = <<"">> THEN "."
    ELSE LET q == StripTrailingSlashes(p)
             last == q[Len(q)]
         IN IF last = "" THEN "/" ELSE last

\* filepath.Dir of a cleaned rooted path.
Dir(p) == IF Len(p) <= 2 THEN Root ELSE DropLast(p)

\* strings.HasPrefix(p, base + "/")
HasSepPrefix(p, base) ==
    Len(p) > Len(base) /\ SubSeq(p, 1, Len(base)) = base

NoErr == ""
ErrEscapes == "archive entry escapes extraction directory"

joinWithinNoCheck(base, name) ==
    [path |-> Join(base, name), err |-> NoErr]

joinWithin(base, name) ==
    LET clean == Join(base, name)
    IN IF ~HasSepPrefix(clean, base) /\ clean # base
           THEN [path |-> NoPath, err |-> ErrEscapes]
           ELSE [path |-> clean, err |-> NoErr]


---------------------------------------------------------------------------
(* Archives: a zip container is the sequence of its entries *)

IDs == {"p1", "p2"}
NoID == "-"

\* The bytes of an entry: a JSON object with an "id" member, or anything else.
ManifestBody(i) == [json |-> TRUE, id |-> i]
DataBody == [json |-> FALSE, id |-> NoID]

IsExecName(b) == b = "main" \/ b = "main.exe"

\* zip.FileHeader.Mode sets the directory bit for every name ending in "/".
EndsInSlash(n) == Len(n) > 1 /\ n[Len(n)] = ""

\* The entry names the archives are built from: every name of one or two
\* segments (the segment "." aside), and "main.exe", "." and "a/../main".
ArchSegs == Segs \ {"."}
EntryNames ==
    {<<s>> : s \in ArchSegs} \cup {<<s, t>> : s, t \in ArchSegs}
        \cup {<<"main.exe">>, <<".">>, <<"a", "..", "main">>}

PlainEntry(n) == [name |-> n, dir |-> EndsInSlash(n), exec |-> FALSE, body |-> DataBody]

\* Every name as a plain entry; a manifest for p1 under every name whose base
\* is manifest.json and one for p2; main with execute bits; main as a
\* directory whose name has no trailing slash.
Entries ==
    {PlainEntry(n) : n \in EntryNames}
        \cup {[PlainEntry(n) EXCEPT !.body = ManifestBody("p1")] :
                n \in {m \in EntryNames : ~EndsInSlash(m) /\ Base(m) = "manifest.json"}}
        \cup {[PlainEntry(<<"manifest.json">>) EXCEPT !.body = ManifestBody("p2")],
              [PlainEntry(<<"main">>) EXCEPT !.exec = TRUE],
              [PlainEntry(<<"main">>) EXCEPT !.dir = TRUE]}

NotAZip == [zip |-> FALSE, files |-> <<>>]

Archives ==
    {NotAZip} \cup
    {[zip |-> TRUE, files |-> f] :
        f \in UNION {[1..k -> Entries] : k \in 0..MaxEntries}}

ErrOpenArchive == "failed to open archive"
ErrNoManifest == "manifest.json not found in plugin archive"
ErrDecodeManifest == "failed to decode manifest"
ErrNoMain == "plugin archive missing main executable"
ErrExtractNoMain == "extracted archive missing main executable"
ErrNotFound == "plugin session not found"

\* The loop of readSDXManifest: the index of the first entry from i on whose
\* base name is manifest.json, 0 if there is none.
RECURSIVE FirstManifest(_, _)
FirstManifest(files, i) ==
    IF i > Len(files) THEN 0
    ELSE IF Base(files[i].name) # "manifest.json" THEN FirstManifest(files, i + 1)
    ELSE i

\* The loop of ensureExecutablePresent.
RECURSIVE FirstExec(_, _)
FirstExec(files, i) ==
    IF i > Len(files) THEN 0
    ELSE IF IsExecName(Base(files[i].name)) THEN i
    ELSE FirstExec(files, i + 1)

readSDXManifestLast(b) ==
    IF ~b.zip THEN [data |-> DataBody, err |-> ErrOpenArchive]
    ELSE LET m == {i \in 1..Len(b.files) : Base(b.files[i].name) = "manifest.json"}
         IN IF m = {} THEN [data |-> DataBody, err |-> ErrNoManifest]
            ELSE [data |-> b.files[CHOOSE i \in m : \A j \in m : j <= i].body,
                  err |-> NoErr]

readSDXManifest(b) ==
    IF ~b.zip THEN [data |-> DataBody, err |-> ErrOpenArchive]
    ELSE LET i == FirstManifest(b.files, 1)
         IN IF i = 0 THEN [data |-> DataBody, err |-> ErrNoManifest]
            ELSE [data |-> b.files[i].body, err |-> NoErr]

ensureExecutableAlways(b) == NoErr

ensureExecutablePresent(b) ==
    IF ~b.zip THEN ErrOpenArchive
    ELSE IF FirstExec(b.files, 1) # 0 THEN NoErr
    ELSE ErrNoMain

\* json.Unmarshal into plugin.Manifest
DecodeManifest(data) ==
    IF data.json THEN [id |-> data.id, err |-> NoErr]
    ELSE [id |-> NoID, err |-> ErrDecodeManifest]

Validate(b) ==
    LET mb == readSDXManifest(b)
    IN IF mb.err # NoErr THEN [id |-> NoID, err |-> mb.err]
       ELSE LET m == DecodeManifest(mb.data)
            IN IF m.err # NoErr THEN m
               ELSE IF ensureExecutablePresent(b) # NoErr
                   THEN [id |-> NoID, err |-> ensureExecutablePresent(b)]
               ELSE m

---------------------------------------------------------------------------
(* The filesystem extraction writes to, and extractSDXArchive *)

\* Directories and files that exist; execs are the files with an execute bit.
InitFS == [dirs |-> {Root, TmpDir}, files |-> {}, execs |-> {}]

\* p and every directory above it, below the root.
SelfAndParents(p) == IF p = Root THEN {} ELSE {SubSeq(p, 1, k) : k \in 2..Len(p)}

\* os.MkdirAll: fails when a file stands where a directory is needed.
MkdirAll(f, p) ==
    IF SelfAndParents(p) \cap f.files # {}
        THEN [fs |-> f, ok |-> FALSE]
        ELSE [fs |-> [f EXCEPT !.dirs = @ \cup SelfAndParents(p)], ok |-> TRUE]

\* os.OpenFile(p, O_WRONLY|O_CREATE|O_TRUNC, mode)
OpenFile(f, p, x) ==
    IF p \in f.dirs \/ Dir(p) \notin f.dirs
        THEN [fs |-> f, ok |-> FALSE]
        ELSE [fs |-> [f EXCEPT !.files = @ \cup {p},
                               !.execs = IF x /\ p \notin f.files THEN @ \cup {p} ELSE @],
              ok |-> TRUE]

\* An I/O failure the environment may inject: operation op on entry number at.
NoFault == [at |-> 0, op |-> "none"]
Faults ==
    {NoFault, [at |-> 0, op |-> "mkdtemp"]} \cup
    {[at |-> i, op |-> o] : i \in 1..MaxEntries, o \in {"mkdir", "open", "create", "copy"}}

ExtractFailed(f, e) == [workdir |-> NoPath, binaryPath |-> NoPath, err |-> e, fs |-> f]

\* The loop of extractSDXArchive from entry i on.
RECURSIVE ExtractEntries(_, _, _, _, _, _)
ExtractEntries(files, i, workdir, f, binaryPath, fault) ==
    IF i > Len(files) THEN
        IF binaryPath = NoPath THEN ExtractFailed(f, ErrExtractNoMain)
        ELSE [workdir |-> workdir, binaryPath |-> binaryPath, err |-> NoErr, fs |-> f]
    ELSE
        LET file == files[i]
            hit(o) == fault = [at |-> i, op |-> o]
            target == joinWithin(workdir, file.name)
        IN  IF target.err # NoErr THEN ExtractFailed(f, target.err)
            ELSE IF file.dir THEN
                LET md == MkdirAll(f, target.path)
                IN IF hit("mkdir") \/ ~md.ok THEN ExtractFailed(f, "failed to create dir")
                   ELSE ExtractEntries(files, i + 1, workdir, md.fs, binaryPath, fault)
            ELSE
                LET mp == MkdirAll(f, Dir(target.path))
                    mode == file.exec \/ IsExecName(Base(file.name))
                    of == OpenFile(mp.fs, target.path, mode)
                IN  IF hit("mkdir") \/ ~mp.ok
                        THEN ExtractFailed(f, "failed to create parent dir")
                    ELSE IF hit("open")
                        THEN ExtractFailed(mp.fs, "failed to open file in archive")
                    ELSE IF hit("create") \/ ~of.ok
                        THEN ExtractFailed(mp.fs, "failed to create extracted file")
                    ELSE IF hit("copy")
                        THEN ExtractFailed(of.fs, "failed to copy archive contents")
                    ELSE ExtractEntries(files, i + 1, workdir, of.fs,
                            IF IsExecName(Base(file.name)) THEN target.path ELSE binaryPath,
                            fault)

extractSDXArchive(b, f, workdir, fault) ==
    IF ~b.zip THEN ExtractFailed(f, ErrOpenArchive)
    ELSE IF fault.op = "mkdtemp" THEN ExtractFailed(f, "failed to create temp dir")
    ELSE ExtractEntries(b.files, 1, workdir, [f EXCEPT !.dirs = @ \cup {workdir}],
                        NoPath, fault)

---------------------------------------------------------------------------
(* The runner registry and its sessions *)

Inactive == "inactive"
Active == "active"
Errored == "errored"

\* The PluginSession and sdxSession that Load builds.
\* ctx and cmd name the run whose context (s.ctx, s.cancel) and whose process
\* (s.cmd, s.stdin) the session holds, 0 for nil. inchan holds the payloads
\* that senders blocked on the unbuffered inbound channel are offering.
NewSessionNoID(id, b) ==
    [id |-> NoID, bin |-> b, reportedState |-> Inactive, errorMessage |-> "",
     ctx |-> 0, cmd |-> 0, workdir |-> NoPath, stopping |-> FALSE,
     pendingCommands |-> {}, inchan |-> {}]

NewSession(id, b) ==
    [id |-> id, bin |-> b, reportedState |-> Inactive, errorMessage |-> "",
     ctx |-> 0, cmd |-> 0, workdir |-> NoPath, stopping |-> FALSE,
     pendingCommands |-> {}, inchan |-> {}]

\* st is the observed state of the session at the time of the call.
Returned(op, b, id, err, h, st) ==
    [op |-> op, b |-> b, id |-> id, err |-> err, h |-> h, st |-> st]

NoCall == Returned("none", NotAZip, NoID, NoErr, 0, "")

GetSession(id) ==
    IF registry[id] = 0 THEN [h |-> 0, err |-> ErrNotFound]
    ELSE [h |-> registry[id], err |-> NoErr]

GetSessions == {registry[i] : i \in IDs} \ {0}

Load(b) ==
    LET manifest == Validate(b)
    IN  IF manifest.err # NoErr THEN
            /\ ret' = Returned("Load", b, NoID, manifest.err, 0, "")
            /\ UNCHANGED <<registry, sess>>
        ELSE
            /\ Len(sess) < MaxSessions
            /\ sess' = Append(sess, NewSession(manifest.id, b))
            /\ registry' = [registry EXCEPT ![manifest.id] = Len(sess) + 1]
            /\ ret' = Returned("Load", b, manifest.id, NoErr, Len(sess) + 1, Inactive)

GetSessionCall(id) ==
    /\ ret' = Returned("GetSession", NotAZip, id, GetSession(id).err, GetSession(id).h,
                        IF registry[id] = 0 THEN "" ELSE sess[registry[id]].reportedState)
    /\ UNCHANGED <<registry, sess>>

ValidateCall(b) ==
    /\ ret' = Returned("Validate", b, Validate(b).id, Validate(b).err, 0, "")
    /\ UNCHANGED <<registry, sess>>

---------------------------------------------------------------------------
(* SpecPath: joinWithin applied to every entry name of up to MaxNameLen segments *)

Idle == [pc |-> "idle", op |-> "", id |-> NoID, h |-> 0, r |-> 0, st |-> ""]
NoCmds == [c \in 1..MaxCmds |-> [sent |-> FALSE, removed |-> 0, delivered |-> 0, abandoned |-> 0]]

NoResult == [path |-> NoPath, err |-> "not called"]
NoExt == [workdir |-> NoPath, binaryPath |-> NoPath, err |-> "not called"]
EmptyRegistry == [i \in IDs |-> 0]

\* newWazeroRunner: an empty registry; calls counts the calls it was given.
NoWazero == [registry |-> EmptyRegistry, sess |-> <<>>, ret |-> NoCall, calls |-> 0]

\* No SetActiveState call made yet.
NoManager ==
    [pc |-> "idle", id |-> NoID, desired |-> "", found |-> FALSE, loaded |-> FALSE,
     started |-> FALSE, err |-> "not called", twice |-> FALSE, n |-> 0, h0 |-> 0]

\* readPluginManifest not called.
NoProbe == [pc |-> "off"]

\* No chat request received.
NoChat == [pc |-> "off"]

\* The session has no stored message and Get has not been called.
NoStore == [messages |-> {}, got |-> <<>>, n |-> 0, after |-> 0, called |-> FALSE]

InitPath ==
    /\ pathName \in SeqsUpTo(Segs, MaxNameLen)
    /\ pathRes = NoResult
    /\ bin = NotAZip /\ ext = NoExt /\ fs = InitFS
    /\ registry = EmptyRegistry /\ sess = <<>> /\ ret = NoCall
    /\ runs = <<>> /\ caller = Idle /\ cmds = NoCmds /\ calls = 0
    /\ wz = NoWazero /\ mgr = NoManager /\ probe = NoProbe
    /\ chat = NoChat /\ store = NoStore

JoinWithinCall ==
    /\ pathRes = NoResult
    /\ pathRes' = joinWithin(WorkDir, pathName)
    /\ UNCHANGED <<pathName, bin, ext, fs, registry, sess, ret, runs, caller, cmds, calls, wz, mgr, probe, chat, store>>

NextPath == JoinWithinCall

SpecPath == InitPath /\ [][NextPath]_vars

---------------------------------------------------------------------------
(* SpecExtract: extractSDXArchive applied to every archive of up to MaxEntries entries *)

InitExtract ==
    /\ bin \in Archives
    /\ ext = NoExt /\ fs = InitFS
    /\ pathName = <<"">> /\ pathRes = NoResult
    /\ registry = EmptyRegistry /\ sess = <<>> /\ ret = NoCall
    /\ runs = <<>> /\ caller = Idle /\ cmds = NoCmds /\ calls = 0
    /\ wz = NoWazero /\ mgr = NoManager /\ probe = NoProbe
    /\ chat = NoChat /\ store = NoStore

ExtractCall(fault) ==
    /\ ext = NoExt
    /\ LET x == extractSDXArchive(bin, fs, WorkDir, fault)
       IN /\ ext' = [workdir |-> x.workdir, binaryPath |-> x.binaryPath, err |-> x.err]
          /\ fs' = x.fs
    /\ UNCHANGED <<pathName, pathRes, bin, registry, sess, ret, runs, caller, cmds, calls, wz, mgr, probe, chat, store>>

NextExtract == \E fault \in Faults : ExtractCall(fault)

SpecExtract == InitExtract /\ [][NextExtract]_vars

---------------------------------------------------------------------------
(* SpecArchive: Validate, Load and the lookups on every archive *)

\* A well-formed plugin archive with identifier i.
GoodArchive(i) ==
    [zip |-> TRUE,
     files |-> << [name |-> <<"manifest.json">>, dir |-> FALSE, exec |-> FALSE,
                   body |-> ManifestBody(i)],
                  [name |-> <<"main">>, dir |-> FALSE, exec |-> TRUE, body |-> DataBody] >>]

InitArchive ==
    /\ bin \in Archives
    /\ ext = NoExt /\ fs = InitFS
    /\ pathName = <<"">> /\ pathRes = NoResult
    /\ registry = EmptyRegistry /\ sess = <<>> /\ ret = NoCall
    /\ runs = <<>> /\ caller = Idle /\ cmds = NoCmds /\ calls = 0
    /\ wz = NoWazero /\ mgr = NoManager /\ probe = NoProbe
    /\ chat = NoChat /\ store = NoStore

NextArchive ==
    \/ ValidateCall(bin) /\ UNCHANGED <<pathName, pathRes, bin, ext, fs, runs, caller, cmds, calls, wz, mgr, probe, chat, store>>
    \/ \E b \in {bin, GoodArchive("p1")} :
          Load(b) /\ UNCHANGED <<pathName, pathRes, bin, ext, fs, runs, caller, cmds, calls, wz, mgr, probe, chat, store>>

SpecArchive == InitArchive /\ [][NextArchive]_vars

---------------------------------------------------------------------------
(* SpecManifest: Validate on archives of up to MaxManifestEntries entries *)

MaxManifestEntries == 3

\* Two manifests with different identifiers under names with the base
\* manifest.json, an entry of that name that is no JSON, main as a file and
\* as a directory, and a file of another name.
ManifestEntries ==
    {[PlainEntry(<<"a", "manifest.json">>) EXCEPT !.body = ManifestBody("p1")],
     [PlainEntry(<<"manifest.json">>) EXCEPT !.body = ManifestBody("p2")],
     PlainEntry(<<"manifest.json">>),
     [PlainEntry(<<"main">>) EXCEPT !.exec = TRUE],
     [PlainEntry(<<"main">>) EXCEPT !.dir = TRUE],
     PlainEntry(<<"a">>)}

ManifestArchives ==
    {NotAZip} \cup
    {[zip |-> TRUE, files |-> f] :
        f \in UNION {[1..k -> ManifestEntries] : k \in 0..MaxManifestEntries}}

InitManifest ==
    /\ bin \in ManifestArchives
    /\ ext = NoExt /\ fs = InitFS
    /\ pathName = <<"">> /\ pathRes = NoResult
    /\ registry = EmptyRegistry /\ sess = <<>> /\ ret = NoCall
    /\ runs = <<>> /\ caller = Idle /\ cmds = NoCmds /\ calls = 0
    /\ wz = NoWazero /\ mgr = NoManager /\ probe = NoProbe
    /\ chat = NoChat /\ store = NoStore

NextManifest ==
    ValidateCall(bin) /\ UNCHANGED <<pathName, pathRes, bin, ext, fs, runs, caller, cmds, calls, wz, mgr, probe, chat, store>>

SpecManifest == InitManifest /\ [][NextManifest]_vars

---------------------------------------------------------------------------
(* Claims on archive validation and extraction *)

\* p is base, or base followed by one or more ordinary segments: the path
\* names base itself or something below it.
Under(p, base) ==
    /\ Len(p) >= Len(base)
    /\ SubSeq(p, 1, Len(base)) = base
    /\ \A i \in (Len(base) + 1)..Len(p) : p[i] \notin {"", ".", ".."}

HasManifestEntry(b) == \E i \in 1..Len(b.files) : Base(b.files[i].name) = "manifest.json"
HasExecEntry(b) == \E i \in 1..Len(b.files) : IsExecName(Base(b.files[i].name))

\* The name holds the characters "../": a ".." segment followed by a slash.
ContainsDotDotSlash(n) == \E i \in 1..(Len(n) - 1) : n[i] = ".."

\* What extraction created.
Created == (fs.dirs \cup fs.files) \ InitFS.dirs

\* C1: after Load of an archive that Validate accepts, GetSession of the
\* manifest's identifier returns a session with that identifier, and
\* GetSessions contains that session.
C1_LoadThenGetSession ==
    (ret.op = "Load" /\ Validate(ret.b).err = NoErr) =>
        LET id == Validate(ret.b).id
            got == GetSession(id)
        IN /\ ret.err = NoErr
           /\ got.err = NoErr
           /\ got.h = ret.h
           /\ sess[got.h].id = id
           /\ got.h \in GetSessions

C1_Witness ==
    /\ ret.op = "Load" /\ ret.err = NoErr /\ ret.b = bin
    /\ FirstManifest(bin.files, 1) = 2
    /\ ret.id = "p1"

\* C2 as stated: every archive with a manifest.json entry and no main or
\* main.exe entry fails validation with the missing-executable error.
C2_AlwaysMissingExecutable ==
    (ret.op = "Validate" /\ HasManifestEntry(ret.b) /\ ~HasExecEntry(ret.b)) =>
        ret.err = ErrNoMain

\* C2, amended: when the first manifest.json entry decodes as a manifest and
\* no entry has the base name main or main.exe, Validate fails with the
\* missing-executable error; and Load of any archive without such an entry
\* returns an error and leaves the registry and its sessions as they were.
C2_MissingExecutable ==
    [][ /\ (/\ ValidateCall(bin)
            /\ readSDXManifest(bin).err = NoErr
            /\ readSDXManifest(bin).data.json
            /\ ~HasExecEntry(bin)) => ret'.err = ErrNoMain
        /\ \A b \in {bin, GoodArchive("p1")} :
              (Load(b) /\ ~HasExecEntry(b)) =>
                  (ret'.err # NoErr /\ registry' = registry /\ sess' = sess)
      ]_vars

C2_Witness ==
    /\ ret.op = "Load" /\ ret.err = ErrNoMain
    /\ registry["p1"] # 0

C4_DotDotNeverExtracted ==
    (ext.err # "not called" /\ \E i \in 1..Len(bin.files) : ContainsDotDotSlash(bin.files[i].name))
        => ext.err # NoErr

\* C4, amended: extraction creates nothing outside the working directory; an
\* archive with an entry whose joined and cleaned path lies outside the working
\* directory is never extracted successfully, and when that entry is the
\* first one the escape error is reported with nothing written.
C4_NoEscape ==
    ext.err # "not called" =>
        /\ \A p \in Created : Under(p, WorkDir)
        /\ (\E i \in 1..Len(bin.files) : ~Under(Join(WorkDir, bin.files[i].name), WorkDir))
              => ext.err # NoErr
        /\ (/\ Len(bin.files) >= 1
            /\ ~Under(Join(WorkDir, bin.files[1].name), WorkDir)
            /\ WorkDir \in fs.dirs)
              => (ext.err = ErrEscapes /\ Created = {WorkDir})

C4_Witness ==
    /\ ext.err = ErrEscapes
    /\ fs.files # {}

\* The entries of archive b whose base name is manifest.json.
ManifestsOf(b) == {i \in 1..Len(b.files) : Base(b.files[i].name) = "manifest.json"}

\* C37: Validate of an archive without an entry of the base name
\* manifest.json fails with the manifest-not-found error, which is not the
\* missing-executable error, whether or not the archive has an executable
\* entry; otherwise the entry that decides is the first such entry in archive
\* order: Validate fails to decode when that entry is no manifest, and the
\* manifest it returns is that entry's.
C37_FirstManifestWins ==
    (ret.op = "Validate" /\ ret.b.zip) =>
        LET m == ManifestsOf(ret.b)
            k == CHOOSE i \in m : \A j \in m : i <= j
        IN /\ m = {} => (ret.err = ErrNoManifest /\ ret.err # ErrNoMain)
           /\ m # {} =>
                /\ ret.err # ErrNoManifest
                /\ ~ret.b.files[k].body.json => ret.err = ErrDecodeManifest
                /\ ret.err \in {NoErr, ErrNoMain} => ret.b.files[k].body.json
                /\ ret.err = NoErr => ret.id = ret.b.files[k].body.id

\* Validate has returned the manifest of the first of two manifest entries
\* with different identifiers.
C37_Witness ==
    /\ ret.op = "Validate" /\ ret.err = NoErr /\ ret.b = bin
    /\ Cardinality(ManifestsOf(bin)) = 2
    /\ \E i, j \in ManifestsOf(bin) :
          /\ i < j /\ bin.files[i].body.json /\ bin.files[j].body.json
          /\ bin.files[i].body.id # bin.files[j].body.id
          /\ ret.id = bin.files[i].body.id

\* C36: an extraction of an archive that Validate accepts, when it ends
\* neither with a path error nor with a filesystem error, succeeds, and the
\* executable path it returns is an extracted file below the working
\* directory whose base name is main or main.exe.
C36_AcceptedArchiveHasExecutable ==
    (Validate(bin).err = NoErr /\ ext.err \in {NoErr, ErrExtractNoMain}) =>
        /\ ext.err = NoErr
        /\ ext.binaryPath # NoPath
        /\ IsExecName(Base(ext.binaryPath))
        /\ ext.binaryPath \in fs.files
        /\ Under(ext.binaryPath, WorkDir)

---------------------------------------------------------------------------
(* The subprocess session: runProcess, its pumps, the child process *)

ErrAlreadyRunning == "plugin is already running"
ErrExtract == "failed to extract plugin"
ErrStart == "failed to start process"
ErrWrite == "failed to write command"
ErrReadStdout == "failed to read stdout"
ErrProcessExited == "process exited"
ErrExitedUnexpectedly == "plugin exited unexpectedly"
ErrDecodeResponse == "failed to decode response"
ErrParseID == "failed to parse response ID"
ErrUnknownCommand == "received response for unknown command"
ErrCanceled == "context canceled"
Nil == "nil"

\* The lines a plugin may write to its standard output: an empty line, free
\* text, a line that starts with "{" and is no response record, a record
\* whose id is no correlation identifier, and a response for any identifier.
Lines ==
    {[kind |-> k, id |-> 0] : k \in {"empty", "log", "malformed", "badid"}}
        \cup {[kind |-> "resp", id |-> c] : c \in 1..MaxCmds}

\* The lines the dispatch loop drops: empty ones and plain text.
Discards == {l \in Lines : l.kind \in {"empty", "log"}}

\* One call of runProcess. pc is the place of the goroutine running it;
\* wr, rd and wt are the places of the writer pump, the output pump and the
\* exit watcher. final is the state the dispatch loop set when it returned;
\* stopSeen says that StopPlugin or Unload was called for the session during
\* the run, or had not yet called stop() when the run began; stopActive that
\* StopPlugin found the run's process with the session active; discarded
\* that the dispatch loop has taken a line and dropped it.
NewRun(h) ==
    [s |-> h, pc |-> "check", err |-> NoErr, ctxDone |-> FALSE,
     workdir |-> NoPath, proc |-> "none", status |-> "", waited |-> FALSE,
     stdinClosed |-> FALSE, errCh |-> <<>>,
     wr |-> "off", rd |-> "off", wt |-> "off",
     response |-> 0, discarded |-> FALSE, final |-> "", stopSeen |-> FALSE,
     stopActive |-> FALSE]

Runs == 1..Len(runs)

\* PluginSession.setState
setState(s, state, message) ==
    [s EXCEPT !.reportedState = state, !.errorMessage = message]

handleErrorNoNote(s, err) == setState(s, Errored, "")

\* handleError of runProcess
handleError(s, err) == setState(s, Errored, err)

sendErrQueues(run, err) == [run EXCEPT !.errCh = Append(@, err)]

\* sendErr of runProcess: a send that is dropped when errCh holds a value.
sendErr(run, err) ==
    IF run.errCh = <<>> THEN [run EXCEPT !.errCh = <<err>>] ELSE run

\* cancel() of the context of run k; nothing for k = 0 (a nil cancel).
Cancel(rs, k) == IF k = 0 THEN rs ELSE [rs EXCEPT ![k].ctxDone = TRUE]

\* os.RemoveAll(dir)
RemoveAll(f, dir) ==
    LET below(p) == Len(p) >= Len(dir) /\ SubSeq(p, 1, Len(dir)) = dir
    IN [dirs |-> {p \in f.dirs : ~below(p)},
        files |-> {p \in f.files : ~below(p)},
        execs |-> {p \in f.execs : ~below(p)}]

pureVars == <<pathName, pathRes, bin, ext, wz, probe, chat, store>>

StartPlugin(id) ==
    /\ calls < MaxCalls
    /\ calls' = calls + 1
    /\ IF registry[id] = 0 THEN
            /\ ret' = Returned("StartPlugin", NotAZip, id, ErrNotFound, 0, "")
            /\ UNCHANGED runs
       ELSE
            /\ Len(runs) < MaxRuns
            /\ runs' = Append(runs,
                    [NewRun(registry[id]) EXCEPT
                        !.stopSeen = (caller.pc \in {"kill", "cancel"}
                                        /\ caller.h = registry[id])])
            /\ ret' = Returned("StartPlugin", NotAZip, id, NoErr, registry[id],
                                sess[registry[id]].reportedState)
    /\ UNCHANGED <<pureVars, fs, registry, sess, caller, cmds>>

\* runProcess up to the creation of its context.
RunCheck(r) ==
    /\ runs[r].pc = "check"
    /\ IF sess[runs[r].s].reportedState = Active THEN
            /\ runs' = [runs EXCEPT ![r].pc = "done", ![r].err = ErrAlreadyRunning]
            /\ UNCHANGED sess
       ELSE
            /\ runs' = [runs EXCEPT ![r].pc = "extract"]
            /\ sess' = [sess EXCEPT ![runs[r].s].ctx = r]
    /\ UNCHANGED <<pureVars, mgr, calls, fs, registry, ret, caller, cmds>>

RunFaults == {NoFault, [at |-> 1, op |-> "copy"]}

\* runProcess: extractSDXArchive(s.bin)
RunExtract(r, fault) ==
    /\ runs[r].pc = "extract"
    /\ LET x == extractSDXArchive(sess[runs[r].s].bin, fs, WorkDirOf(r), fault)
       IN /\ fs' = x.fs
          /\ runs' = IF x.err # NoErr
                THEN [runs EXCEPT ![r].pc = "done", ![r].err = ErrExtract,
                                  ![r].ctxDone = TRUE]
                ELSE [runs EXCEPT ![r].pc = "spawn", ![r].workdir = x.workdir]
    /\ UNCHANGED <<pureVars, mgr, calls, registry, sess, ret, caller, cmds>>

\* A run whose dispatch loop or one of whose pumps is going.
Live(run) ==
    \/ run.pc \in {"loop", "deliver", "cleanup"}
    \/ run.wr = "recv"
    \/ run.rd = "scan"
    \/ run.wt \in {"wait", "report"}

RunStartMarksErrored(r, started) ==
    /\ runs[r].pc = "spawn"
    /\ IF ~started \/ runs[r].ctxDone
          THEN /\ runs' = [runs EXCEPT ![r].pc = "done", ![r].err = ErrStart,
                                       ![r].ctxDone = TRUE]
               /\ sess' = [sess EXCEPT ![runs[r].s] = handleError(@, ErrStart)]
          ELSE /\ runs' = [runs EXCEPT ![r].pc = "store", ![r].proc = "running"]
               /\ UNCHANGED sess
    /\ UNCHANGED <<pureVars, mgr, calls, fs, registry, ret, caller, cmds>>

\* runProcess from exec.CommandContext to cmd.Start, which fails when started
\* is false and when the context is already cancelled.
RunStart(r, started) ==
    /\ runs[r].pc = "spawn"
    /\ runs' = IF ~started \/ runs[r].ctxDone
            THEN [runs EXCEPT ![r].pc = "done", ![r].err = ErrStart, ![r].ctxDone = TRUE]
            ELSE [runs EXCEPT ![r].pc = "store", ![r].proc = "running"]
    /\ UNCHANGED <<pureVars, mgr, calls, fs, registry, sess, ret, caller, cmds>>

StoreHandleKeepsState(r) ==
    /\ runs[r].pc = "store"
    /\ runs' = [runs EXCEPT ![r].pc = "loop", ![r].wr = "recv", ![r].rd = "scan",
                            ![r].wt = "wait"]
    /\ sess' = [sess EXCEPT ![runs[r].s] =
            [@ EXCEPT !.cmd = r, !.workdir = runs[r].workdir, !.stopping = FALSE]]
    /\ UNCHANGED <<pureVars, mgr, calls, fs, registry, ret, caller, cmds>>

\* runProcess from the handle stored under s.mu to setState(active), with the
\* four goroutines started in between.
StoreHandle(r) ==
    /\ runs[r].pc = "store"
    /\ runs' = [runs EXCEPT ![r].pc = "loop", ![r].wr = "recv", ![r].rd = "scan",
                            ![r].wt = "wait"]
    /\ sess' = [sess EXCEPT ![runs[r].s] =
            setState([@ EXCEPT !.cmd = r, !.workdir = runs[r].workdir,
                               !.stopping = FALSE],
                     Active, "")]
    /\ UNCHANGED <<pureVars, mgr, calls, fs, registry, ret, caller, cmds>>

\* The same while fewer than MaxLive runs are going.
RunStore(r) ==
    /\ Cardinality({q \in Runs : Live(runs[q])}) < MaxLive
    /\ StoreHandle(r)

---------------------------------------------------------------------------
(* The writer pump *)

WriterCtxDone(r) ==
    /\ runs[r].wr = "recv"
    /\ runs[r].ctxDone
    /\ runs' = [runs EXCEPT ![r].wr = "done", ![r].stdinClosed = TRUE]
    /\ UNCHANGED <<pureVars, mgr, calls, fs, registry, sess, ret, caller, cmds>>

\* What the failed write reports: nothing once the context is cancelled.
WriteFailed(run) == IF ~run.ctxDone THEN sendErr(run, ErrWrite) ELSE run

\* case payload := <-s.inchan: the pump takes a payload that a sender offers
\* and writes it; fmt.Fprintf fails on a closed pipe and on the pipe of a
\* process that is gone, and the pump returns, closing stdin.
WriterWrite(r, c) ==
    /\ runs[r].wr = "recv"
    /\ c \in sess[runs[r].s].inchan
    /\ sess' = [sess EXCEPT ![runs[r].s].inchan = @ \ {c}]
    /\ runs' = IF ~runs[r].stdinClosed /\ runs[r].proc = "running"
            THEN runs
            ELSE [runs EXCEPT ![r] = [WriteFailed(@) EXCEPT !.wr = "done",
                                                           !.stdinClosed = TRUE]]
    /\ UNCHANGED <<pureVars, mgr, calls, fs, registry, ret, caller, cmds>>

---------------------------------------------------------------------------
(* The output pump *)

\* scanner.Scan returns false: end of stream after the process has gone, or
\* a read of a pipe that cmd.Wait has closed by then.
ReaderEnd(r) ==
    /\ runs[r].rd = "scan"
    /\ runs[r].proc = "exited"
    /\ runs' = IF runs[r].waited /\ ~runs[r].ctxDone
            THEN [runs EXCEPT ![r] = [sendErr(@, ErrReadStdout) EXCEPT !.rd = "done"]]
            ELSE [runs EXCEPT ![r].rd = "done"]
    /\ UNCHANGED <<pureVars, mgr, calls, fs, registry, sess, ret, caller, cmds>>

\* The pump returns on a cancelled context, after Scan or in its select.
ReaderCtxDone(r) ==
    /\ runs[r].rd = "scan"
    /\ runs[r].ctxDone
    /\ runs' = [runs EXCEPT ![r].rd = "done"]
    /\ UNCHANGED <<pureVars, mgr, calls, fs, registry, sess, ret, caller, cmds>>

---------------------------------------------------------------------------
(* The child process and the exit watcher *)

\* The plugin exits on its own.
ProcExit(r, status) ==
    /\ runs[r].proc = "running"
    /\ runs' = [runs EXCEPT ![r].proc = "exited", ![r].status = status]
    /\ UNCHANGED <<pureVars, mgr, calls, fs, registry, sess, ret, caller, cmds>>

\* exec.CommandContext kills the process once the context is done.
CtxKill(r) ==
    /\ runs[r].proc = "running"
    /\ runs[r].ctxDone
    /\ runs' = [runs EXCEPT ![r].proc = "exited", ![r].status = "killed"]
    /\ UNCHANGED <<pureVars, mgr, calls, fs, registry, sess, ret, caller, cmds>>

ExitReportAlwaysNil(stopping, status) == Nil

\* What the exit watcher sends after cmd.Wait.
ExitReport(stopping, status) ==
    IF stopping THEN Nil
    ELSE IF status # "exit0" THEN ErrProcessExited
    ELSE ErrExitedUnexpectedly

\* cmd.Wait returns, having closed the pipes.
WatcherWait(r) ==
    /\ runs[r].wt = "wait"
    /\ runs[r].proc = "exited"
    /\ runs' = [runs EXCEPT ![r].wt = "report", ![r].waited = TRUE]
    /\ UNCHANGED <<pureVars, mgr, calls, fs, registry, sess, ret, caller, cmds>>

\* The exit watcher reads s.stopping under s.mu and reports.
WatcherReport(r) ==
    /\ runs[r].wt = "report"
    /\ runs' = [runs EXCEPT ![r] =
            [sendErr(@, ExitReport(sess[runs[r].s].stopping, runs[r].status))
                EXCEPT !.wt = "done"]]
    /\ UNCHANGED <<pureVars, mgr, calls, fs, registry, sess, ret, caller, cmds>>

---------------------------------------------------------------------------
(* The dispatch loop of runProcess *)

\* case <-ctx.Done()
LoopCtxDone(r) ==
    /\ runs[r].pc = "loop"
    /\ runs[r].ctxDone
    /\ sess' = [sess EXCEPT ![runs[r].s] = setState(@, Inactive, "")]
    /\ runs' = [runs EXCEPT ![r].pc = "cleanup", ![r].err = ErrCanceled,
                            ![r].final = Inactive]
    /\ UNCHANGED <<pureVars, mgr, calls, fs, registry, ret, caller, cmds>>

\* case err := <-errCh
LoopErr(r) ==
    /\ runs[r].pc = "loop"
    /\ runs[r].errCh # <<>>
    /\ LET err == runs[r].errCh[1]
       IN IF err = Nil THEN
               /\ sess' = [sess EXCEPT ![runs[r].s] = setState(@, Inactive, "")]
               /\ runs' = [runs EXCEPT ![r].pc = "cleanup", ![r].errCh = <<>>,
                                       ![r].final = Inactive]
          ELSE
               /\ sess' = [sess EXCEPT ![runs[r].s] = handleError(@, err)]
               /\ runs' = [runs EXCEPT ![r].pc = "cleanup", ![r].errCh = <<>>,
                                       ![r].err = err, ![r].final = Errored]
    /\ UNCHANGED <<pureVars, mgr, calls, fs, registry, ret, caller, cmds>>

LoadOnly(pending, c) == [ok |-> c \in pending, pending |-> pending]

\* s.pendingCommands.LoadAndDelete(ident)
LoadAndDelete(pending, c) == [ok |-> c \in pending, pending |-> pending \ {c}]

UnknownAsInactive(s) == setState(s, Inactive, "")

\* The branch for a response that matches no pending command.
UnknownCommand(s) == handleError(s, ErrUnknownCommand)

LoopRecvDecodesAll(r, q, line) ==
    /\ runs[r].pc = "loop"
    /\ runs[q].s = runs[r].s
    /\ runs[q].rd = "scan"
    /\ LET h == runs[r].s
           found == LoadAndDelete(sess[h].pendingCommands, line.id)
       IN CASE line.kind = "empty" ->
                  /\ runs' = [runs EXCEPT ![r].discarded = TRUE]
                  /\ UNCHANGED <<sess, cmds>>
            [] line.kind \in {"log", "malformed"} ->
                  /\ runs' = [runs EXCEPT ![r].discarded = (line.kind = "log") \/ @]
                  /\ sess' = [sess EXCEPT ![h] = handleError(@, ErrDecodeResponse)]
                  /\ UNCHANGED cmds
            [] line.kind = "badid" ->
                  /\ UNCHANGED runs
                  /\ sess' = [sess EXCEPT ![h] = handleError(@, ErrParseID)]
                  /\ UNCHANGED cmds
            [] line.kind = "resp" /\ ~found.ok ->
                  /\ UNCHANGED runs
                  /\ sess' = [sess EXCEPT ![h] = UnknownCommand(@)]
                  /\ UNCHANGED cmds
            [] line.kind = "resp" /\ found.ok ->
                  /\ runs' = [runs EXCEPT ![r].pc = "deliver", ![r].response = line.id]
                  /\ sess' = [sess EXCEPT ![h].pendingCommands = found.pending]
                  /\ cmds' = [cmds EXCEPT ![line.id].removed = @ + 1]
    /\ UNCHANGED <<pureVars, mgr, calls, fs, registry, ret, caller>>

LoopRecvErrorsAll(r, q, line) ==
    /\ runs[r].pc = "loop"
    /\ runs[q].s = runs[r].s
    /\ runs[q].rd = "scan"
    /\ sess' = [g \in 1..Len(sess) |-> handleError(sess[g], ErrDecodeResponse)]
    /\ UNCHANGED <<pureVars, mgr, calls, fs, registry, ret, runs, caller, cmds>>

\* case output := <-s.outchan: the output pump of run q (of the same session)
\* hands the loop of run r a line it has scanned, and the loop handles it up
\* to the hand-over of a matched response. The channel is unbuffered, so the
\* scan of the line shows only here.
LoopRecv(r, q, line) ==
    /\ runs[r].pc = "loop"
    /\ runs[q].s = runs[r].s
    /\ runs[q].rd = "scan"
    /\ LET h == runs[r].s
           taken == runs
           found == LoadAndDelete(sess[h].pendingCommands, line.id)
       IN CASE line.kind \in {"empty", "log"} ->
                  /\ runs' = [taken EXCEPT ![r].discarded = TRUE]
                  /\ UNCHANGED <<sess, cmds>>
            [] line.kind = "malformed" ->
                  /\ runs' = taken
                  /\ sess' = [sess EXCEPT ![h] = handleError(@, ErrDecodeResponse)]
                  /\ UNCHANGED cmds
            [] line.kind = "badid" ->
                  /\ runs' = taken
                  /\ sess' = [sess EXCEPT ![h] = handleError(@, ErrParseID)]
                  /\ UNCHANGED cmds
            [] line.kind = "resp" /\ ~found.ok ->
                  /\ runs' = taken
                  /\ sess' = [sess EXCEPT ![h] = UnknownCommand(@)]
                  /\ UNCHANGED cmds
            [] line.kind = "resp" /\ found.ok ->
                  /\ runs' = [taken EXCEPT ![r].pc = "deliver", ![r].response = line.id]
                  /\ sess' = [sess EXCEPT ![h].pendingCommands = found.pending]
                  /\ cmds' = [cmds EXCEPT ![line.id].removed = @ + 1]
    /\ UNCHANGED <<pureVars, mgr, calls, fs, registry, ret, caller>>

LoopDeliverAlways(r, abandon) ==
    /\ runs[r].pc = "deliver"
    /\ abandon => runs[r].ctxDone
    /\ cmds' = IF abandon
            THEN [cmds EXCEPT ![runs[r].response].abandoned = r,
                              ![runs[r].response].delivered = @ + 1]
            ELSE [cmds EXCEPT ![runs[r].response].delivered = @ + 1]
    /\ runs' = [runs EXCEPT ![r].pc = "loop", ![r].response = 0]
    /\ UNCHANGED <<pureVars, mgr, calls, fs, registry, sess, ret, caller>>

LoopDeliverToFirst(r, abandon) ==
    /\ runs[r].pc = "deliver"
    /\ abandon => runs[r].ctxDone
    /\ cmds' = IF abandon
            THEN [cmds EXCEPT ![runs[r].response].abandoned = r]
            ELSE [cmds EXCEPT ![1].delivered = @ + 1]
    /\ runs' = [runs EXCEPT ![r].pc = "loop", ![r].response = 0]
    /\ UNCHANGED <<pureVars, mgr, calls, fs, registry, sess, ret, caller>>

\* select { case pending.respch <- response: ... case <-ctx.Done(): ... }
LoopDeliver(r, abandon) ==
    /\ runs[r].pc = "deliver"
    /\ abandon => runs[r].ctxDone
    /\ cmds' = IF abandon
            THEN [cmds EXCEPT ![runs[r].response].abandoned = r]
            ELSE [cmds EXCEPT ![runs[r].response].delivered = @ + 1]
    /\ runs' = [runs EXCEPT ![r].pc = "loop", ![r].response = 0]
    /\ UNCHANGED <<pureVars, mgr, calls, fs, registry, sess, ret, caller>>

RunCleanupResets(r) ==
    /\ runs[r].pc = "cleanup"
    /\ fs' = IF sess[runs[r].s].workdir # NoPath
                THEN RemoveAll(fs, sess[runs[r].s].workdir) ELSE fs
    /\ sess' = [sess EXCEPT ![runs[r].s] =
            setState([@ EXCEPT !.workdir = NoPath, !.cmd = 0], Inactive, "")]
    /\ runs' = [runs EXCEPT ![r].pc = "done", ![r].ctxDone = TRUE]
    /\ UNCHANGED <<pureVars, mgr, calls, registry, ret, caller, cmds>>

\* The deferred function of runProcess.
RunCleanup(r) ==
    /\ runs[r].pc = "cleanup"
    /\ fs' = IF sess[runs[r].s].workdir # NoPath
                THEN RemoveAll(fs, sess[runs[r].s].workdir) ELSE fs
    /\ sess' = [sess EXCEPT ![runs[r].s].workdir = NoPath, ![runs[r].s].cmd = 0]
    /\ runs' = [runs EXCEPT ![r].pc = "done", ![r].ctxDone = TRUE]
    /\ UNCHANGED <<pureVars, mgr, calls, registry, ret, caller, cmds>>

\* PluginSession.Send: a fresh correlation id is entered in the pending table
\* and the payload offered on the inbound channel.
SendCommand(h, c) ==
    /\ ~cmds[c].sent
    /\ \A d \in 1..(c - 1) : cmds[d].sent
    /\ cmds' = [cmds EXCEPT ![c].sent = TRUE]
    /\ sess' = [sess EXCEPT ![h].pendingCommands = @ \cup {c}, ![h].inchan = @ \cup {c}]
    /\ UNCHANGED <<pureVars, mgr, calls, fs, registry, ret, runs, caller>>

---------------------------------------------------------------------------
(* StopPlugin and Unload *)

\* PluginSession.stop: cancels the session's current context, if any.
stop(rs, s) == Cancel(rs, s.ctx)

Noted(rs, h, active) ==
    [i \in 1..Len(rs) |->
        IF rs[i].s = h /\ rs[i].pc # "done"
            THEN [rs[i] EXCEPT !.stopSeen = TRUE,
                               !.stopActive = @ \/ (active /\ sess[h].cmd = i)]
            ELSE rs[i]]

\* StopPlugin up to the release of s.mu; Unload enters it after its own lookup.
StopBegin(op, id) ==
    /\ caller.pc = "idle"
    /\ calls < MaxCalls
    /\ calls' = calls + 1
    /\ IF registry[id] = 0 THEN
            /\ ret' = Returned(op, NotAZip, id, ErrNotFound, 0, "")
            /\ UNCHANGED <<sess, runs, caller>>
       ELSE LET h == registry[id]
                st == sess[h].reportedState
            IN IF sess[h].cmd = 0 THEN
                    /\ runs' = stop(Noted(runs, h, FALSE), sess[h])
                    /\ UNCHANGED sess
                    /\ IF op = "StopPlugin"
                          THEN /\ ret' = Returned(op, NotAZip, id, NoErr, h, st)
                               /\ UNCHANGED caller
                          ELSE /\ caller' = [pc |-> "unload", op |-> op, id |-> id,
                                             h |-> h, r |-> 0, st |-> st]
                               /\ UNCHANGED ret
               ELSE
                    /\ sess' = [sess EXCEPT ![h].stopping = TRUE]
                    /\ runs' = Noted(runs, h, st = Active)
                    /\ caller' = [pc |-> "kill", op |-> op, id |-> id, h |-> h,
                                  r |-> sess[h].cmd, st |-> st]
                    /\ UNCHANGED ret
    /\ UNCHANGED <<pureVars, fs, registry, cmds>>

\* stdin.Close(), then cmd.Process.Kill() unless the process is known to have exited.
StopKill ==
    /\ caller.pc = "kill"
    /\ runs' = [runs EXCEPT ![caller.r] =
            [@ EXCEPT !.stdinClosed = TRUE,
                      !.proc = IF @ = "running" THEN "exited" ELSE @,
                      !.status = IF runs[caller.r].proc = "running" THEN "killed" ELSE @]]
    /\ caller' = [caller EXCEPT !.pc = "cancel"]
    /\ UNCHANGED <<pureVars, mgr, calls, fs, registry, sess, ret, cmds>>

\* sess.stop()
StopCancel ==
    /\ caller.pc = "cancel"
    /\ runs' = stop(runs, sess[caller.h])
    /\ caller' = [caller EXCEPT !.pc = "wait"]
    /\ UNCHANGED <<pureVars, mgr, calls, fs, registry, sess, ret, cmds>>

\* The wait for sess.ctx.Done(), given up when the caller's own context ends.
StopWait(giveUp) ==
    /\ caller.pc = "wait"
    /\ \/ giveUp
       \/ sess[caller.h].ctx = 0
       \/ runs[sess[caller.h].ctx].ctxDone
    /\ IF caller.op = "StopPlugin"
          THEN /\ ret' = Returned(caller.op, NotAZip, caller.id,
                                  IF giveUp THEN ErrCanceled ELSE NoErr, caller.h, caller.st)
               /\ caller' = Idle
          ELSE /\ caller' = [caller EXCEPT !.pc = "unload"]
               /\ UNCHANGED ret
    /\ UNCHANGED <<pureVars, mgr, calls, fs, registry, sess, runs, cmds>>

\* Unload after its StopPlugin: the registry entry is deleted and the working
\* directory removed.
UnloadFinish ==
    /\ caller.pc = "unload"
    /\ registry' = [registry EXCEPT ![caller.id] = 0]
    /\ fs' = IF sess[caller.h].workdir # NoPath
                THEN RemoveAll(fs, sess[caller.h].workdir) ELSE fs
    /\ sess' = [sess EXCEPT ![caller.h].workdir = NoPath]
    /\ ret' = Returned("Unload", NotAZip, caller.id, NoErr, caller.h, caller.st)
    /\ caller' = Idle
    /\ UNCHANGED <<pureVars, mgr, calls, runs, cmds>>

---------------------------------------------------------------------------
(* Spec: one subprocess runner, its callers, its sessions and their plugins *)

\* Load and GetSession as calls of the runner under test.
LoadCall(b) ==
    /\ calls < MaxCalls
    /\ calls' = calls + 1
    /\ Load(b)
    /\ UNCHANGED <<pureVars, mgr, fs, runs, caller, cmds>>

LookupCall(id) ==
    /\ calls < MaxCalls
    /\ calls' = calls + 1
    /\ GetSessionCall(id)
    /\ UNCHANGED <<pureVars, mgr, fs, runs, caller, cmds>>

Init ==
    /\ pathName = <<"">> /\ pathRes = NoResult
    /\ bin = NotAZip /\ ext = NoExt /\ fs = InitFS
    /\ registry = EmptyRegistry /\ sess = <<>> /\ ret = NoCall
    /\ runs = <<>> /\ caller = Idle /\ cmds = NoCmds /\ calls = 0
    /\ wz = NoWazero /\ mgr = NoManager /\ probe = NoProbe
    /\ chat = NoChat /\ store = NoStore

\* What goes on between the calls when no command is sent and the plugins
\* write nothing: the rest of StopPlugin, the runProcess goroutines and the
\* child processes.
SessionSteps ==
    \/ StopKill
    \/ StopCancel
    \/ \E giveUp \in BOOLEAN : StopWait(giveUp)
    \/ \E r \in Runs : RunCheck(r)
    \/ \E r \in Runs, fault \in RunFaults : RunExtract(r, fault)
    \/ \E r \in Runs, started \in BOOLEAN : RunStart(r, started)
    \/ \E r \in Runs : RunStore(r)
    \/ \E r \in Runs : WriterCtxDone(r)
    \/ \E r \in Runs : ReaderEnd(r)
    \/ \E r \in Runs : ReaderCtxDone(r)
    \/ \E r \in Runs, status \in {"exit0", "exit1"} : ProcExit(r, status)
    \/ \E r \in Runs : CtxKill(r)
    \/ \E r \in Runs : WatcherWait(r)
    \/ \E r \in Runs : WatcherReport(r)
    \/ \E r \in Runs : LoopCtxDone(r)
    \/ \E r \in Runs : LoopErr(r)
    \/ \E r \in Runs : RunCleanup(r)

\* The same with the rest of Unload.
Steps == UnloadFinish \/ SessionSteps

\* The commands sent to the sessions and the lines their plugins write,
\* those that the dispatch loop drops left out.
Traffic ==
    \/ \E h \in 1..Len(sess), c \in 1..MaxCmds : SendCommand(h, c)
    \/ \E r \in Runs, c \in 1..MaxCmds : WriterWrite(r, c)
    \/ \E r, q \in Runs, l \in Lines \ Discards : LoopRecv(r, q, l)
    \/ \E r \in Runs, abandon \in BOOLEAN : LoopDeliver(r, abandon)

Background == Steps \/ Traffic

\* The calls of a user of the subprocess runner.
Calls ==
    \/ \E i \in IDs : LoadCall(GoodArchive(i))
    \/ \E i \in IDs : LookupCall(i)
    \/ \E i \in IDs : StartPlugin(i) /\ UNCHANGED mgr
    \/ \E i \in IDs, op \in {"StopPlugin", "Unload"} : StopBegin(op, i) /\ UNCHANGED mgr

Next == Calls \/ Background

Spec == Init /\ [][Next]_vars

---------------------------------------------------------------------------
(* SpecOverlap: one session of the subprocess runner whose starts may overlap *)

\* Load of the one plugin, not counted among the calls.
LoadFirst ==
    /\ sess = <<>>
    /\ Load(GoodArchive("p1"))
    /\ UNCHANGED <<pureVars, mgr, fs, runs, caller, cmds, calls>>

\* One step of a runProcess goroutine other than the extraction, of its
\* pumps or of its child process: the spawn succeeds and the process ends
\* only when it is killed.
RunStep(r) ==
    \/ RunCheck(r)
    \/ RunStart(r, TRUE)
    \/ StoreHandle(r)
    \/ WriterCtxDone(r)
    \/ ReaderEnd(r)
    \/ ReaderCtxDone(r)
    \/ CtxKill(r)
    \/ WatcherWait(r)
    \/ WatcherReport(r)
    \/ LoopCtxDone(r)
    \/ LoopErr(r)
    \/ RunCleanup(r)

\* StartPlugin and StopPlugin calls for the plugin in any order, with
\* runProcess goroutines that store their handles whatever other run is
\* going; extraction succeeds, no command is sent and the plugin writes
\* nothing.
NextOverlap ==
    \/ LoadFirst
    \/ StartPlugin("p1") /\ UNCHANGED mgr
    \/ StopBegin("StopPlugin", "p1") /\ UNCHANGED mgr
    \/ StopKill
    \/ StopCancel
    \/ \E giveUp \in BOOLEAN : StopWait(giveUp)
    \/ \E r \in Runs : RunExtract(r, NoFault)
    \/ \E r \in Runs : RunStep(r)

SpecOverlap == Init /\ [][NextOverlap]_vars

\* The scheduler leaves no goroutine and no process that can take a step
\* waiting forever, no extraction lasts forever, and the context of
\* StopPlugin's caller is not cancelled.
FairOverlap ==
    /\ SpecOverlap
    /\ WF_vars(StopKill) /\ WF_vars(StopCancel) /\ WF_vars(StopWait(FALSE))
    /\ \A r \in 1..MaxRuns : WF_vars(r \in Runs /\ RunStep(r))
    /\ \A r \in 1..MaxRuns : []<>(~(r \in Runs /\ runs[r].pc = "extract"))

---------------------------------------------------------------------------
(* SpecDispatch: one run of one session with up to MaxPending commands *)

MaxPending == 2

\* No command sent yet, of the MaxPending that callers of Send will send.
NoPending ==
    [c \in 1..MaxPending |->
        [sent |-> FALSE, removed |-> 0, delivered |-> 0, abandoned |-> 0]]

InitDispatch ==
    /\ pathName = <<"">> /\ pathRes = NoResult
    /\ bin = NotAZip /\ ext = NoExt /\ fs = InitFS
    /\ registry = EmptyRegistry /\ sess = <<>> /\ ret = NoCall
    /\ runs = <<>> /\ caller = Idle /\ cmds = NoPending /\ calls = 0
    /\ wz = NoWazero /\ mgr = NoManager /\ probe = NoProbe
    /\ chat = NoChat /\ store = NoStore

\* The response frames the plugin may write, in any order and any number.
Frames == {[kind |-> "resp", id |-> c] : c \in 1..MaxPending}

\* The plugin is loaded and started once; callers send their commands while
\* the plugin answers the commands in whatever order, also ones not sent, and
\* writes empty lines and plain text in between.
NextDispatch ==
    \/ LoadFirst
    \/ runs = <<>> /\ StartPlugin("p1") /\ UNCHANGED mgr
    \/ \E r \in Runs : RunCheck(r)
    \/ \E r \in Runs : RunExtract(r, NoFault)
    \/ \E r \in Runs : RunStart(r, TRUE)
    \/ \E r \in Runs : StoreHandle(r)
    \/ \E h \in 1..Len(sess), c \in 1..MaxPending : SendCommand(h, c)
    \/ \E r \in Runs, c \in 1..MaxPending : WriterWrite(r, c)
    \/ \E r, q \in Runs, l \in Frames \cup Discards : LoopRecv(r, q, l)
    \/ \E r \in Runs : LoopDeliver(r, FALSE)

SpecDispatch == InitDispatch /\ [][NextDispatch]_vars

---------------------------------------------------------------------------
(* The WebAssembly runner, given the calls the subprocess runner is given *)

\* The PluginSession that wazeroRunner.Load builds. run tells whether a start
\* of the session is under way ("starting"), its module is running
\* ("running") or neither ("none"); cancelled, that stop() reached it.
NewWasmSession(id) ==
    [id |-> id, reportedState |-> Inactive, run |-> "none", cancelled |-> FALSE]

\* PluginSession.stop, on a session of the WebAssembly runner.
WasmStop(s) == IF s.run = "none" THEN s ELSE [s EXCEPT !.cancelled = TRUE]

\* wazeroRunner.Load; m is what Validate made of b.
WLoad(w, b, m) ==
    IF m.err # NoErr THEN [w EXCEPT !.ret = Returned("Load", b, NoID, m.err, 0, "")]
    ELSE [w EXCEPT !.sess = Append(@, NewWasmSession(m.id)),
                   !.registry[m.id] = Len(w.sess) + 1,
                   !.ret = Returned("Load", b, m.id, NoErr, Len(w.sess) + 1, Inactive)]

WUnloadKeeps(w, id) ==
    IF w.registry[id] = 0
        THEN [w EXCEPT !.ret = Returned("Unload", NotAZip, id, ErrNotFound, 0, "")]
        ELSE [w EXCEPT !.sess[w.registry[id]] = WasmStop(@),
                       !.ret = Returned("Unload", NotAZip, id, NoErr, w.registry[id],
                                        w.sess[w.registry[id]].reportedState)]

\* wazeroRunner.Unload
WUnload(w, id) ==
    IF w.registry[id] = 0
        THEN [w EXCEPT !.ret = Returned("Unload", NotAZip, id, ErrNotFound, 0, "")]
        ELSE [w EXCEPT !.sess[w.registry[id]] = WasmStop(@),
                       !.registry[id] = 0,
                       !.ret = Returned("Unload", NotAZip, id, NoErr, w.registry[id],
                                        w.sess[w.registry[id]].reportedState)]

WGetSessionNil(w, id) ==
    [w EXCEPT !.ret = Returned("GetSession", NotAZip, id, NoErr, w.registry[id], "")]

\* wazeroRunner.GetSession
WGetSession(w, id) ==
    IF w.registry[id] = 0
        THEN [w EXCEPT !.ret = Returned("GetSession", NotAZip, id, ErrNotFound, 0, "")]
        ELSE [w EXCEPT !.ret = Returned("GetSession", NotAZip, id, NoErr, w.registry[id],
                                        w.sess[w.registry[id]].reportedState)]

\* wazeroRunner.GetSessions
WGetSessions(w) == {w.registry[i] : i \in IDs} \ {0}

\* wazeroRunner.StartPlugin: the goroutine that calls sess.start() is under
\* way from here on, unless one already is.
WStartPlugin(w, id) ==
    IF w.registry[id] = 0
        THEN [w EXCEPT !.ret = Returned("StartPlugin", NotAZip, id, ErrNotFound, 0, "")]
        ELSE [w EXCEPT !.sess[w.registry[id]].run = IF @ = "none" THEN "starting" ELSE @,
                       !.ret = Returned("StartPlugin", NotAZip, id, NoErr, w.registry[id],
                                        w.sess[w.registry[id]].reportedState)]

WStopPluginNotFound(w, id) ==
    [w EXCEPT !.ret = Returned("StopPlugin", NotAZip, id, ErrNotFound, 0, "")]

\* wazeroRunner.StopPlugin
WStopPlugin(w, id) ==
    IF w.registry[id] = 0
        THEN [w EXCEPT !.ret = Returned("StopPlugin", NotAZip, id, ErrNotFound, 0, "")]
        ELSE [w EXCEPT !.sess[w.registry[id]] = WasmStop(@),
                       !.ret = Returned("StopPlugin", NotAZip, id, NoErr, w.registry[id],
                                        w.sess[w.registry[id]].reportedState)]

\* The call the subprocess runner was given last is given to the WebAssembly
\* runner, with the same outcome of Validate for a Load.
WReplay ==
    /\ caller.pc = "idle"
    /\ wz.calls < calls
    /\ LET done ==
            CASE ret.op = "Load" -> WLoad(wz, ret.b, [id |-> ret.id, err |-> ret.err])
              [] ret.op = "Unload" -> WUnload(wz, ret.id)
              [] ret.op = "GetSession" -> WGetSession(wz, ret.id)
              [] ret.op = "StartPlugin" -> WStartPlugin(wz, ret.id)
              [] ret.op = "StopPlugin" -> WStopPlugin(wz, ret.id)
       IN wz' = [done EXCEPT !.calls = @ + 1]
    /\ UNCHANGED <<pathName, pathRes, bin, ext, probe, chat, store, fs, registry, sess, ret, runs,
                   caller, cmds, calls, mgr>>

\* PluginSession.start got as far as the running module.
WStarted(h) ==
    /\ wz.sess[h].run = "starting"
    /\ ~wz.sess[h].cancelled
    /\ wz' = [wz EXCEPT !.sess[h].run = "running", !.sess[h].reportedState = Active]
    /\ UNCHANGED <<pathName, pathRes, bin, ext, probe, chat, store, fs, registry, sess, ret, runs,
                   caller, cmds, calls, mgr>>

\* The start or the module ends on the cancellation that stop() made.
WEnded(h) ==
    /\ wz.sess[h].run # "none"
    /\ wz.sess[h].cancelled
    /\ wz' = [wz EXCEPT !.sess[h].run = "none", !.sess[h].cancelled = FALSE,
                        !.sess[h].reportedState = Inactive]
    /\ UNCHANGED <<pathName, pathRes, bin, ext, probe, chat, store, fs, registry, sess, ret, runs,
                   caller, cmds, calls, mgr>>

\* The WebAssembly runner has been given every call that has returned.
Synced == caller.pc # "idle" \/ wz.calls = calls

\* No call is under way and both runners have been given the same calls.
Quiet == caller.pc = "idle" /\ wz.calls = calls

\* SpecBackends: the calls of Spec made one after the other, each given to
\* both runners, with plugins that are sent no command and write nothing;
\* archives that Validate rejects are loaded too.
NextBackends ==
    \/ Quiet /\ Calls
    \/ Quiet /\ LoadCall(NotAZip)
    \/ Synced /\ Steps
    \/ WReplay
    \/ \E h \in 1..Len(wz.sess) : WStarted(h)
    \/ \E h \in 1..Len(wz.sess) : WEnded(h)

SpecBackends == Init /\ [][NextBackends]_vars

---------------------------------------------------------------------------
(* readPluginManifest: the probe run of a WebAssembly module by Validate *)

\* Lines a probed module writes at most.
MaxProbeLines == 2

ErrNoOutput == "no output received from module: expected a manifest"
ErrInstantiate == "failed to instantiate"
ErrCloseModule == "failed to close module"
ErrCtxCancelled == "context cancelled while reading manifest"

\* How the run of a module ends: its start function returns, it exits, or
\* InstantiateWithConfig fails otherwise.
ModuleEnds == {"returns", "exits", "fails"}

probeVars ==
    <<pathName, pathRes, bin, ext, fs, registry, sess, ret, runs, caller, cmds, calls,
      wz, mgr, chat, store>>

\* readPluginManifest up to its select: the pipe, the two channels and the
\* two goroutines. The module is one that writes the given number of lines
\* and then ends in the given way.
readPluginManifest(lines, end) ==
    /\ probe.pc = "off"
    /\ probe' = [pc |-> "select", lines |-> lines, end |-> end, written |-> 0,
                 sc |-> "scan", mod |-> "run", manifestCh |-> <<>>, errCh |-> <<>>,
                 pwClosed |-> FALSE, ctxDone |-> FALSE, result |-> "pending"]
    /\ UNCHANGED probeVars

\* The module writes a line to its standard output, the write end of the
\* pipe: the write fails when the pipe is closed, and otherwise completes
\* when the scanner takes the line, which it then puts in manifestCh.
ModuleWrite ==
    /\ probe.pc # "off"
    /\ probe.mod = "run"
    /\ probe.written < probe.lines
    /\ probe.pwClosed \/ probe.sc = "scan"
    /\ probe' = IF probe.pwClosed
                  THEN [probe EXCEPT !.written = @ + 1]
                  ELSE [probe EXCEPT !.written = @ + 1, !.sc = "done",
                                     !.manifestCh = <<probe.written + 1>>]
    /\ UNCHANGED probeVars

\* InstantiateWithConfig returns: with an error, sent on errCh, or without.
InstantiateReturns ==
    /\ probe.pc # "off"
    /\ probe.mod = "run"
    /\ probe.written = probe.lines
    /\ IF probe.end = "returns"
          THEN probe' = [probe EXCEPT !.mod = "close"]
          ELSE /\ probe.errCh = <<>>
               /\ probe' = [probe EXCEPT !.mod = "done", !.errCh = <<ErrInstantiate>>]
    /\ UNCHANGED probeVars

\* mod.Close(ctx): its error is sent on errCh, its success is not reported.
ModuleClose(ok) ==
    /\ probe.pc # "off"
    /\ probe.mod = "close"
    /\ IF ok
          THEN probe' = [probe EXCEPT !.mod = "done"]
          ELSE /\ probe.errCh = <<>>
               /\ probe' = [probe EXCEPT !.mod = "done", !.errCh = <<ErrCloseModule>>]
    /\ UNCHANGED probeVars

\* scanner.Scan() returns false: the pipe was closed before any line came.
ScanEOF ==
    /\ probe.pc # "off"
    /\ probe.sc = "scan"
    /\ probe.pwClosed
    /\ probe.errCh = <<>>
    /\ probe' = [probe EXCEPT !.sc = "done", !.errCh = <<ErrNoOutput>>]
    /\ UNCHANGED probeVars

\* case manifest := <-manifestCh, and Validate's json.Unmarshal of the line
SelectManifest(decodeOK) ==
    /\ probe.pc = "select"
    /\ probe.manifestCh # <<>>
    /\ probe' = [probe EXCEPT !.pc = "returned", !.manifestCh = <<>>, !.pwClosed = TRUE,
                              !.result = IF decodeOK THEN "manifest"
                                         ELSE ErrDecodeManifest]
    /\ UNCHANGED probeVars

\* case err := <-errCh
SelectErr ==
    /\ probe.pc = "select"
    /\ probe.errCh # <<>>
    /\ probe' = [probe EXCEPT !.pc = "returned", !.errCh = <<>>, !.pwClosed = TRUE,
                              !.result = probe.errCh[1]]
    /\ UNCHANGED probeVars

\* case <-ctx.Done()
SelectCtxDone ==
    /\ probe.pc = "select"
    /\ probe.ctxDone
    /\ probe' = [probe EXCEPT !.pc = "returned", !.pwClosed = TRUE,
                              !.result = ErrCtxCancelled]
    /\ UNCHANGED probeVars

\* The caller of Validate cancels the context it passed.
CallerCancels ==
    /\ probe.pc = "select"
    /\ ~probe.ctxDone
    /\ probe' = [probe EXCEPT !.ctxDone = TRUE]
    /\ UNCHANGED probeVars

NextProbe ==
    \/ \E lines \in 0..MaxProbeLines, end \in ModuleEnds : readPluginManifest(lines, end)
    \/ ModuleWrite
    \/ InstantiateReturns
    \/ \E ok \in BOOLEAN : ModuleClose(ok)
    \/ ScanEOF
    \/ \E decodeOK \in BOOLEAN : SelectManifest(decodeOK)
    \/ SelectErr
    \/ SelectCtxDone
    \/ CallerCancels

SpecProbe == Init /\ [][NextProbe]_vars

\* FairProbe: every goroutine of readPluginManifest that can take a step
\* takes one; the caller need not cancel.
FairProbe ==
    /\ SpecProbe
    /\ WF_vars(ModuleWrite)
    /\ WF_vars(InstantiateReturns)
    /\ WF_vars(\E ok \in BOOLEAN : ModuleClose(ok))
    /\ WF_vars(ScanEOF)
    /\ WF_vars(\E decodeOK \in BOOLEAN : SelectManifest(decodeOK))
    /\ WF_vars(SelectErr)
    /\ WF_vars(SelectCtxDone)

---------------------------------------------------------------------------
(* The Manager over the subprocess runner *)

\* SetActiveState calls made in a behaviour of SpecManager.
MaxMgrCalls == 2

ActiveStateActive == "active"
ActiveStateInactive == "inactive"
DesiredStates == {ActiveStateActive, ActiveStateInactive, "paused"}

ErrGet == "plugin record not found"
ErrLoadBinary == "failed to load binary"
ErrUnknownDesired == "unknown desired state"

\* The binaries the record store may hold for a plugin.
StoredBinaries(id) == {GoodArchive(id), NotAZip}

SetActiveStateDefaultStop(id, desired, getOK) ==
    /\ mgr.pc = "idle"
    /\ mgr.n < MaxMgrCalls
    /\ mgr' = [pc |-> IF ~getOK THEN "idle"
                      ELSE IF desired = ActiveStateActive THEN "lookup" ELSE "stop",
               id |-> id, desired |-> desired, found |-> FALSE, loaded |-> FALSE,
               started |-> FALSE, err |-> IF getOK THEN NoErr ELSE ErrGet,
               n |-> mgr.n + 1, h0 |-> 0,
               twice |-> (mgr.id = id /\ mgr.desired = desired /\ mgr.err = NoErr)]
    /\ UNCHANGED <<pureVars, fs, registry, sess, ret, runs, caller, cmds, calls>>

\* Manager.SetActiveState up to the switch: pluginQuerier.Get, then the
\* branch on desiredState. twice records that the call before this one was
\* given the same arguments and returned nil.
SetActiveState(id, desired, getOK) ==
    /\ mgr.pc = "idle"
    /\ mgr.n < MaxMgrCalls
    /\ LET begun == [pc |-> "idle", id |-> id, desired |-> desired, found |-> FALSE,
                     loaded |-> FALSE, started |-> FALSE, err |-> NoErr, n |-> mgr.n + 1,
                     h0 |-> 0,
                     twice |-> (mgr.id = id /\ mgr.desired = desired /\ mgr.err = NoErr)]
       IN mgr' = IF ~getOK THEN [begun EXCEPT !.err = ErrGet]
                 ELSE CASE desired = ActiveStateActive -> [begun EXCEPT !.pc = "lookup"]
                        [] desired = ActiveStateInactive -> [begun EXCEPT !.pc = "stop"]
                        [] OTHER -> [begun EXCEPT !.err = ErrUnknownDesired]
    /\ UNCHANGED <<pureVars, fs, registry, sess, ret, runs, caller, cmds, calls>>

activateLookupAlwaysLoad ==
    /\ mgr.pc = "lookup"
    /\ GetSessionCall(mgr.id)
    /\ mgr' = [mgr EXCEPT !.found = (registry[mgr.id] # 0), !.h0 = registry[mgr.id],
                          !.pc = "load"]
    /\ UNCHANGED <<pureVars, fs, runs, caller, cmds, calls>>

\* activatePlugin: runner.GetSession; h0 is the session it returned.
activateLookup ==
    /\ mgr.pc = "lookup"
    /\ GetSessionCall(mgr.id)
    /\ mgr' = [mgr EXCEPT !.found = (registry[mgr.id] # 0), !.h0 = registry[mgr.id],
                          !.pc = IF registry[mgr.id] # 0 THEN "start" ELSE "load"]
    /\ UNCHANGED <<pureVars, fs, runs, caller, cmds, calls>>

\* activatePlugin: pluginQuerier.LoadBinary, then runner.Load
activateLoad(binOK, b) ==
    /\ mgr.pc = "load"
    /\ IF ~binOK THEN
            /\ mgr' = [mgr EXCEPT !.pc = "idle", !.err = ErrLoadBinary]
            /\ UNCHANGED <<registry, sess, ret>>
       ELSE
            /\ Load(b)
            /\ mgr' = IF ret'.err # NoErr
                        THEN [mgr EXCEPT !.pc = "idle", !.loaded = TRUE, !.err = ret'.err]
                        ELSE [mgr EXCEPT !.pc = "start", !.loaded = TRUE]
    /\ UNCHANGED <<pureVars, fs, runs, caller, cmds, calls>>

\* activatePlugin: runner.StartPlugin
activateStart ==
    /\ mgr.pc = "start"
    /\ StartPlugin(mgr.id)
    /\ mgr' = [mgr EXCEPT !.pc = "idle", !.started = TRUE, !.err = ret'.err]

\* deactivatePlugin: runner.StopPlugin is entered
deactivatePlugin ==
    /\ mgr.pc = "stop"
    /\ StopBegin("StopPlugin", mgr.id)
    /\ mgr' = [mgr EXCEPT !.pc = "stopping"]

\* deactivatePlugin: runner.StopPlugin has returned
deactivateReturn ==
    /\ mgr.pc = "stopping"
    /\ caller.pc = "idle"
    /\ mgr' = [mgr EXCEPT !.pc = "idle", !.err = ret.err]
    /\ UNCHANGED <<pureVars, fs, registry, sess, ret, runs, caller, cmds, calls>>

\* SpecManager: one Manager whose calls are the only calls of the subprocess
\* runner, with plugins that are sent no command and write nothing.
NextManager ==
    \/ \E i \in IDs, d \in DesiredStates, getOK \in BOOLEAN : SetActiveState(i, d, getOK)
    \/ activateLookup
    \/ \E binOK \in BOOLEAN, b \in StoredBinaries(mgr.id) : activateLoad(binOK, b)
    \/ activateStart
    \/ deactivatePlugin
    \/ deactivateReturn
    \/ SessionSteps

SpecManager == Init /\ [][NextManager]_vars

----------------------------------------------------------------------------
(* newChatHandler: the events of one chat stream *)

\* Items the agent's stream yields at most before it ends.
MaxEvents == 3

\* Text parts with visible text in one event at most.
MaxTexts == 2

\* The line streamEmitter.Done writes.
DoneMarker == "[DONE]"

\* What newChatHandler looks at in one item of the agent's stream: the error
\* that came with it, or the parts of its content: how many carry a
\* FunctionCall and whether its arguments marshal, whether one carries a
\* FunctionResponse marked _client_side_pending, how many carry text that is
\* not blank, and whether the event is a final response. An event without
\* content is one with none of these parts.
StreamItems ==
    { e \in [streamErr : BOOLEAN, calls : 0..1, argsOK : BOOLEAN, pending : BOOLEAN,
             texts : 0..MaxTexts, final : BOOLEAN] :
        /\ (e.calls = 0 => e.argsOK)
        /\ (e.streamErr =>
                e.calls = 0 /\ ~e.pending /\ e.texts = 0 /\ ~e.final) }

\* streamEmitter.Send: the event is handed to the response writer, where
\* the write is lost, and Send returns its error, when the connection is
\* down.
Send(c, type) == [c EXCEPT !.out = Append(@, [type |-> type, written |-> c.up])]

\* streamEmitter.Done.
Done(c) == Send(c, DoneMarker)

\* A return of the handler after "defer emitter.Done()".
chatReturn(c, why) == [Done(c) EXCEPT !.pc = "done", !.why = why]

sendToolCall(c, argsOK) ==
    LET started == Send(c, "tool-input-start")
        delta == IF argsOK THEN Send(started, "tool-input-delta") ELSE started
    IN Send(delta, "tool-input-available")

\* sendTextChunks for an event with k parts of visible text: it stops at the
\* first Send that fails.
RECURSIVE sendTextChunks(_, _)
sendTextChunks(c, k) ==
    IF k = 0 THEN c
    ELSE LET sent == Send(c, "text-delta")
         IN IF ~c.up THEN sent ELSE sendTextChunks(sent, k - 1)

\* newChatHandler up to its loop. Without a Flusher under the response
\* writer the handler answers with http.Error, as it does for a request it
\* rejects earlier, and no stream is begun.
ChatRequest(flusher, up) ==
    /\ chat.pc = "off"
    /\ LET fresh == [pc |-> "loop", out |-> <<>>, up |-> up, ctxDone |-> FALSE,
                     textStarted |-> FALSE, finalSeen |-> FALSE, eventCount |-> 0,
                     why |-> ""]
           started == Send(fresh, "start")
       IN chat' = IF ~flusher THEN [fresh EXCEPT !.pc = "done", !.why = "no stream"]
                  ELSE IF ~up THEN chatReturn(started, "start failed")
                  ELSE started
    /\ UNCHANGED <<pathName, pathRes, bin, ext, fs, registry, sess, ret, runs, caller,
                   cmds, calls, wz, mgr, probe, store>>

\* The client goes away: writes to the response writer fail from now on.
ClientGone ==
    /\ chat.pc = "loop"
    /\ chat.up
    /\ chat' = [chat EXCEPT !.up = FALSE]
    /\ UNCHANGED <<pathName, pathRes, bin, ext, fs, registry, sess, ret, runs, caller,
                   cmds, calls, wz, mgr, probe, store>>

\* The request's context is cancelled.
CtxCancel ==
    /\ chat.pc = "loop"
    /\ ~chat.ctxDone
    /\ chat' = [chat EXCEPT !.ctxDone = TRUE]
    /\ UNCHANGED <<pathName, pathRes, bin, ext, fs, registry, sess, ret, runs, caller,
                   cmds, calls, wz, mgr, probe, store>>

\* One pass of "for event, streamErr := range stream".
StreamItem(e) ==
    /\ chat.pc = "loop"
    /\ chat.eventCount < MaxEvents
    /\ LET counted == [chat EXCEPT !.eventCount = @ + 1]
           called == IF e.calls = 1 THEN sendToolCall(counted, e.argsOK) ELSE counted
           opened == IF e.texts > 0 /\ ~called.textStarted
                     THEN [Send(called, "text-start") EXCEPT !.textStarted = TRUE]
                     ELSE called
           chunked == IF opened.textStarted THEN sendTextChunks(opened, e.texts)
                      ELSE opened
       IN chat' = IF e.streamErr THEN chatReturn(Send(counted, "error"), "stream error")
                  ELSE IF chat.ctxDone THEN chatReturn(counted, "cancelled")
                  ELSE IF e.pending THEN chatReturn(called, "pending")
                  ELSE [chunked EXCEPT !.finalSeen = @ \/ e.final]
    /\ UNCHANGED <<pathName, pathRes, bin, ext, fs, registry, sess, ret, runs, caller,
                   cmds, calls, wz, mgr, probe, store>>

\* The stream has ended without text-end: the handler as it would be if it
\* closed no text part.
StreamEndNoTextEnd ==
    /\ chat.pc = "loop"
    /\ chat' = chatReturn(Send(chat, "finish"), "complete")
    /\ UNCHANGED <<pathName, pathRes, bin, ext, fs, registry, sess, ret, runs, caller,
                   cmds, calls, wz, mgr, probe, store>>

\* The agent's stream has ended: the statements after the loop.
StreamEnd ==
    /\ chat.pc = "loop"
    /\ LET closed == IF chat.textStarted THEN Send(chat, "text-end") ELSE chat
       IN chat' = chatReturn(Send(closed, "finish"), "complete")
    /\ UNCHANGED <<pathName, pathRes, bin, ext, fs, registry, sess, ret, runs, caller,
                   cmds, calls, wz, mgr, probe, store>>

NextChat ==
    \/ \E flusher \in BOOLEAN, up \in BOOLEAN : ChatRequest(flusher, up)
    \/ ClientGone
    \/ CtxCancel
    \/ \E e \in StreamItems : StreamItem(e)
    \/ StreamEnd

SpecChat == Init /\ [][NextChat]_vars

----------------------------------------------------------------------------
(* sessionStorage: the stored messages of one session and Get *)

\* Messages stored for the session at most.
MaxMessages == 3

\* Creation times run from 1 to MaxTime; 0 is the zero time of a request
\* without After.
MaxTime == 3

\* NumRecentEvents of a request at most.
MaxRecent == 2

\* The creation time of the newest stored message.
Latest == IF store.messages = {} THEN 1
          ELSE CHOOSE t \in 1..MaxTime :
                    /\ \E m \in store.messages : m.at = t
                    /\ \A m \in store.messages : m.at <= t

\* AppendEvent: a partial event is dropped; any other is saved as a message
\* with the time of the save as its creation time.
AppendEvent(partial, at) ==
    /\ Cardinality(store.messages) < MaxMessages
    /\ at >= Latest
    /\ store' = IF partial THEN store
                ELSE [store EXCEPT !.messages =
                        @ \cup {[id |-> Cardinality(store.messages) + 1, at |-> at]}]
    /\ UNCHANGED <<pathName, pathRes, bin, ext, fs, registry, sess, ret, runs, caller,
                   cmds, calls, wz, mgr, probe, chat>>

\* The orders in which ORDER BY created_at ASC may return the given
\* messages: ascending by creation time, messages of one time in any order.
Ascending(msgs) ==
    { q \in [1..Cardinality(msgs) -> msgs] :
        /\ \A i, j \in 1..Cardinality(msgs) : i < j => q[i] # q[j] /\ q[i].at <= q[j].at }

\* LIMIT n on the ordered rows.
Limit(q, n) == SubSeq(q, 1, IF n < Len(q) THEN n ELSE Len(q))

\* mapToADKEvents: the events of the messages, one for one and in order.
mapToADKEvents(messages) == [i \in 1..Len(messages) |-> messages[i]]

\* sessionStorage.Get for the session: the messages query orders by creation
\* time ascending, limits to NumRecentEvents when that is positive and keeps
\* the messages created at or after After when that is not zero.
Get(n, after) ==
    /\ \E q \in Ascending({m \in store.messages : after = 0 \/ m.at >= after}) :
          LET rows == IF n > 0 THEN Limit(q, n) ELSE q
          IN store' = [store EXCEPT !.got = mapToADKEvents(rows), !.n = n,
                                    !.after = after, !.called = TRUE]
    /\ UNCHANGED <<pathName, pathRes, bin, ext, fs, registry, sess, ret, runs, caller,
                   cmds, calls, wz, mgr, probe, chat>>

NextStore ==
    \/ \E partial \in BOOLEAN, at \in 1..MaxTime : AppendEvent(partial, at)
    \/ \E n \in 0..MaxRecent, after \in 0..MaxTime : Get(n, after)

SpecStore == Init /\ [][NextStore]_vars

---------------------------------------------------------------------------
(* Claims on the subprocess session *)

\* C5: a StartPlugin call that finds the session active returns the
\* "already running" error to its caller.
C5_AlreadyRunningReported ==
    (ret.op = "StartPlugin" /\ ret.st = Active) => ret.err = ErrAlreadyRunning

\* C6: a run whose process StopPlugin found with the session active, and then
\* killed, ends with the session inactive, whatever the pumps do meanwhile.
C6_StopEndsInactive ==
    \A r \in Runs :
        (runs[r].stopActive /\ runs[r].status = "killed" /\ runs[r].final # "")
            => runs[r].final = Inactive

\* C7: a run whose process exited on its own, with no StopPlugin or Unload
\* called for the session during the run, ends with the session errored and a
\* non-empty note; it does not end inactive.
C7_UnexpectedExitErrored ==
    \A r \in Runs :
        (runs[r].final # "" /\ runs[r].status \in {"exit0", "exit1"} /\ ~runs[r].stopSeen)
            => (runs[r].final = Errored /\ runs[r].err # NoErr)

C7_Witness ==
    \E r \in Runs :
        /\ runs[r].status \in {"exit0", "exit1"} /\ ~runs[r].stopSeen
        /\ runs[r].final = Errored /\ runs[r].pc = "done"
        /\ sess[runs[r].s].reportedState = Errored
        /\ sess[runs[r].s].errorMessage \in {ErrProcessExited, ErrExitedUnexpectedly}

Delivering(c) == \E r \in Runs : runs[r].pc = "deliver" /\ runs[r].response = c

\* C8 as stated: once the response for a pending command c has been matched
\* and the loop has passed the hand-over, exactly one response was delivered.
C8_ExactlyOneDelivered ==
    \A c \in 1..MaxCmds :
        (cmds[c].removed >= 1 /\ ~Delivering(c)) => cmds[c].delivered = 1

\* C8: a command c is removed from the pending table at most once and at most
\* one response for it is delivered, so a second frame carrying c is never
\* delivered; past the hand-over exactly one response was delivered, unless
\* the context of the run was cancelled and the delivery abandoned.
C8_AtMostOneDelivered ==
    \A c \in 1..MaxCmds :
        /\ cmds[c].removed <= 1
        /\ cmds[c].delivered <= cmds[c].removed
        /\ (cmds[c].removed = 1 /\ ~Delivering(c)) =>
              \/ cmds[c].delivered = 1 /\ cmds[c].abandoned = 0
              \/ /\ cmds[c].delivered = 0
                 /\ cmds[c].abandoned \in Runs
                 /\ runs[cmds[c].abandoned].ctxDone

C8_Witness ==
    \E c \in 1..MaxCmds, h \in 1..Len(sess) :
        /\ cmds[c].sent /\ cmds[c].removed = 1 /\ cmds[c].delivered = 1
        /\ sess[h].reportedState = Errored
        /\ sess[h].errorMessage = ErrUnknownCommand

\* C9: when the dispatch loop takes a response frame whose id is not in the
\* pending table, the session becomes errored with the unknown-command note,
\* no response is delivered and the loop goes on.
C9_UnknownCommandErrored ==
    [][\A r \in Runs, q \in Runs, c \in 1..MaxCmds :
          (/\ c \notin sess[runs[r].s].pendingCommands
           /\ LoopRecv(r, q, [kind |-> "resp", id |-> c]))
            => /\ sess'[runs[r].s].reportedState = Errored
               /\ sess'[runs[r].s].errorMessage = ErrUnknownCommand
               /\ cmds' = cmds
               /\ runs'[r].pc = "loop"]_vars

C9_Witness ==
    \E r \in Runs :
        /\ runs[r].pc = "loop"
        /\ sess[runs[r].s].reportedState = Errored
        /\ sess[runs[r].s].errorMessage = ErrUnknownCommand
        /\ \A c \in 1..MaxCmds : ~cmds[c].sent

\* C10: no session holds a running process while a different session is
\* registered under its plugin id.
C10_OneLiveSessionPerID ==
    \A r \in Runs :
        runs[r].proc = "running" =>
            registry[sess[runs[r].s].id] \in {0, runs[r].s}

\* C11: every change of a session's observed state is one of
\* inactive -> active, active -> inactive, active -> errored, errored -> active.
C11_OnlyListedTransitions ==
    [][\A h \in 1..Len(sess) :
          sess'[h].reportedState # sess[h].reportedState =>
              <<sess[h].reportedState, sess'[h].reportedState>> \in
                  {<<Inactive, Active>>, <<Active, Inactive>>,
                   <<Active, Errored>>, <<Errored, Active>>}]_vars

\* The errors of a process that ended or of a pipe that failed.
RuntimeErrors == {ErrProcessExited, ErrExitedUnexpectedly, ErrWrite, ErrReadStdout}

\* Every run of session h has left its dispatch loop or never entered it.
Settled(h) == \A r \in Runs : runs[r].s = h => runs[r].pc \in {"cleanup", "done"}

\* C17: a session that is errored because its process ended or a pipe
\* failed, with no run of it under way, stays errored with the same message,
\* gets no new run and no new child process in every step except a
\* StartPlugin call for it.
C17_ErroredUntilStart ==
    [][\A h \in 1..Len(sess) :
          (/\ sess[h].reportedState = Errored
           /\ sess[h].errorMessage \in RuntimeErrors
           /\ Settled(h))
            => \/ registry[sess[h].id] = h /\ StartPlugin(sess[h].id)
               \/ /\ sess'[h].reportedState = Errored
                  /\ sess'[h].errorMessage = sess[h].errorMessage
                  /\ \A r \in 1..Len(runs') :
                        runs'[r].s = h =>
                            /\ r <= Len(runs)
                            /\ runs'[r].pc \in {"cleanup", "done"}
                            /\ runs'[r].proc = "running" => runs[r].proc = "running"]_vars

C17_Witness ==
    \E h \in 1..Len(sess) :
        /\ sess[h].reportedState = Errored
        /\ sess[h].errorMessage = ErrExitedUnexpectedly
        /\ \A r \in Runs : runs[r].pc = "done" /\ runs[r].wr # "recv" /\ runs[r].rd # "scan"
        /\ Runs # {}
        /\ ret.op = "GetSession" /\ ret.h = h /\ ret.st = Errored /\ calls = MaxCalls

\* The errors of a line that is no response to a pending command.
ProtocolErrors == {ErrDecodeResponse, ErrParseID, ErrUnknownCommand}

\* Line l, read in session h, is a protocol error.
ProtocolError(h, l) ==
    \/ l.kind \in {"malformed", "badid"}
    \/ l.kind = "resp" /\ l.id \notin sess[h].pendingCommands

\* C18: the handling of a malformed line or of a response with an unmatched
\* correlation identifier in one session marks that session errored and
\* leaves the registry, every other session (state, process handle, pending
\* table) and every run as they were; the session stays registered.
C18_ProtocolErrorIsLocal ==
    [][\A r, q \in Runs, l \in Lines :
          (ProtocolError(runs[r].s, l) /\ LoopRecv(r, q, l)) =>
              /\ registry' = registry
              /\ Len(sess') = Len(sess)
              /\ \A g \in 1..Len(sess) : g # runs[r].s => sess'[g] = sess[g]
              /\ runs' = runs
              /\ sess'[runs[r].s].reportedState = Errored
              /\ sess'[runs[r].s].errorMessage \in ProtocolErrors
              /\ sess'[runs[r].s].cmd = sess[runs[r].s].cmd
              /\ sess'[runs[r].s].pendingCommands = sess[runs[r].s].pendingCommands]_vars

C18_Witness ==
    /\ Len(sess) = 2 /\ registry["p1"] # 0 /\ registry["p2"] # 0
    /\ \E h \in 1..2 :
          /\ sess[h].reportedState = Errored
          /\ sess[h].errorMessage \in ProtocolErrors
          /\ sess[h].cmd # 0 /\ runs[sess[h].cmd].pc = "loop"
          /\ sess[3 - h].reportedState = Inactive /\ sess[3 - h].errorMessage = ""

\* C21: when the extraction of a start attempt has failed and the attempt
\* has ended, the working directory the extraction created is gone.
C21_FailedExtractionCleaned ==
    \A r \in Runs :
        (runs[r].pc = "done" /\ runs[r].err = ErrExtract) =>
            /\ WorkDirOf(r) \notin fs.dirs
            /\ \A p \in fs.files : ~Under(p, WorkDirOf(r))

\* C22: no session has two child processes at once, nor two dispatch loops.
C22_OneProcessOneLoop ==
    \A h \in 1..Len(sess) :
        /\ Cardinality({r \in Runs : runs[r].s = h /\ runs[r].proc = "running"}) <= 1
        /\ Cardinality({r \in Runs : runs[r].s = h /\ runs[r].pc \in {"loop", "deliver"}}) <= 1

\* C23: once Unload has returned nil, and until the next call, the plugin id
\* is not registered and no run of the unloaded session spawns a child
\* process.
C23_NoSpawnAfterUnload ==
    [][(ret.op = "Unload" /\ ret.err = NoErr) =>
          /\ registry[ret.id] = 0
          /\ \A r \in Runs :
                (runs[r].s = ret.h /\ runs[r].proc # "running")
                    => runs'[r].proc # "running"]_vars

\* C24: when a start attempt that extracted a working directory has ended,
\* that directory is gone.
C24_WorkdirRemovedAtEnd ==
    \A r \in Runs :
        (runs[r].pc = "done" /\ runs[r].workdir # NoPath) =>
            runs[r].workdir \notin fs.dirs

\* C25: the error channel of a run holds at most one value and a report
\* that finds it full is dropped; the dispatch loop returns once, setting
\* the session inactive or errored, and inactive only if a StopPlugin or
\* Unload call for the session was made during the run or was still to
\* cancel the session's context when the run began.
C25_FirstEventDecides ==
    [][\A r \in Runs :
          /\ Len(runs[r].errCh) <= 1
          /\ runs[r].errCh # <<>> => runs'[r].errCh \in {runs[r].errCh, <<>>}
          /\ runs[r].final # "" => runs'[r].final = runs[r].final
          /\ (runs[r].final = "" /\ runs'[r].final # "") =>
                /\ runs[r].pc = "loop"
                /\ runs'[r].final \in {Inactive, Errored}
                /\ sess'[runs[r].s].reportedState = runs'[r].final
                /\ runs'[r].final = Inactive => runs[r].stopSeen
                /\ runs'[r].final = Errored => sess'[runs[r].s].errorMessage # ""]_vars

C25_Witness ==
    \E r \in Runs :
        /\ runs[r].final = Errored /\ runs[r].err = ErrReadStdout
        /\ runs[r].wt = "done" /\ runs[r].errCh = <<>> /\ runs[r].stopSeen
        /\ runs[r].pc = "done"
        /\ sess[runs[r].s].reportedState = Errored

\* C26: the exit watcher of a run whose process StopPlugin found with the
\* session active, and which was then killed, reads the stopping flag as set
\* and reports a clean stop.
C26_WatcherSeesStopping ==
    [][\A r \in Runs :
          (WatcherReport(r) /\ runs[r].stopActive /\ runs[r].status = "killed") =>
              /\ sess[runs[r].s].stopping
              /\ runs[r].errCh = <<>> => runs'[r].errCh = <<Nil>>]_vars

\* A run whose dispatch loop has returned, whose pumps have terminated and
\* whose handle is no longer the session's.
Ended(r) ==
    /\ runs[r].pc = "done"
    /\ runs[r].wr = "done" /\ runs[r].rd = "done" /\ runs[r].wt = "done"
    /\ sess[runs[r].s].cmd # r

\* C27: under fair scheduling, every dispatch loop of the session that is
\* running when StopPlugin finds the session active returns, its pumps
\* terminate, its handle is cleared and StopPlugin returns.
C27_StopEndsRuns ==
    \A r \in 1..MaxRuns :
        (/\ r \in Runs
         /\ caller.pc = "kill" /\ caller.st = Active /\ caller.h = runs[r].s
         /\ runs[r].pc \in {"loop", "deliver"})
            ~> (r \in Runs /\ Ended(r) /\ caller.pc = "idle")

\* C28: with several commands pending, a frame taken by the dispatch loop
\* removes from the pending table only the command whose correlation id is
\* the frame's and is held for that command; a command's response channel
\* receives a response only in a hand-over of a frame with the command's id,
\* and no other command's record changes in that step.
C28_ResponseToItsCommand ==
    [][/\ \A r, q \in Runs, l \in Frames :
            (LoopRecv(r, q, l) /\ l.id \in sess[runs[r].s].pendingCommands) =>
                /\ runs'[r].response = l.id
                /\ sess'[runs[r].s].pendingCommands =
                        sess[runs[r].s].pendingCommands \ {l.id}
                /\ \A d \in DOMAIN cmds : d # l.id => cmds'[d] = cmds[d]
       /\ \A c \in DOMAIN cmds :
            cmds'[c].delivered # cmds[c].delivered =>
                /\ cmds[c].sent
                /\ \E r \in Runs : runs[r].pc = "deliver" /\ runs[r].response = c
                /\ cmds'[c].delivered = cmds[c].delivered + 1
                /\ \A d \in DOMAIN cmds : d # c => cmds'[d] = cmds[d]]_vars

\* The second command's response has been delivered while the first command,
\* sent before it, is still pending.
C28_Witness ==
    /\ Len(sess) = 1 /\ MaxPending >= 2
    /\ cmds[2].delivered = 1 /\ cmds[2].removed = 1
    /\ cmds[1].sent /\ cmds[1].delivered = 0
    /\ sess[1].pendingCommands = {1}

\* C29 as stated: once the context is cancelled, a dispatch loop that waits
\* to hand a matched response over leaves the wait without delivering it.
C29_CancelledMeansAbandoned ==
    [][\A r \in Runs :
          (runs[r].pc = "deliver" /\ runs[r].ctxDone /\ runs'[r].pc # "deliver") =>
              cmds'[runs[r].response].delivered = cmds[runs[r].response].delivered]_vars

\* C29: a hand-over is abandoned only by a loop that waits for it with its
\* context cancelled; the response is not delivered in that step nor in any
\* later one, the command has left the pending table before, and the loop is
\* back at its select with the context cancelled, so that it can end the run.
C29_AbandonedNeverDelivered ==
    [][\A c \in DOMAIN cmds :
          /\ cmds'[c].abandoned # cmds[c].abandoned =>
                LET r == cmds'[c].abandoned
                IN /\ r \in Runs
                   /\ runs[r].pc = "deliver" /\ runs[r].response = c
                   /\ runs[r].ctxDone
                   /\ cmds'[c].delivered = cmds[c].delivered
                   /\ cmds[c].removed >= 1
                   /\ c \notin sess[runs[r].s].pendingCommands
                   /\ runs'[r].pc = "loop" /\ runs'[r].ctxDone
          /\ cmds[c].abandoned # 0 =>
                /\ cmds'[c].delivered = cmds[c].delivered
                /\ cmds'[c].abandoned = cmds[c].abandoned
                /\ c \notin sess'[runs[cmds[c].abandoned].s].pendingCommands
                /\ runs'[cmds[c].abandoned].ctxDone]_vars

\* A hand-over was abandoned and the loop has ended the run since.
C29_Witness ==
    \E c \in DOMAIN cmds :
        /\ cmds[c].abandoned # 0 /\ cmds[c].delivered = 0 /\ cmds[c].removed = 1
        /\ runs[cmds[c].abandoned].pc = "done"
        /\ runs[cmds[c].abandoned].final = Inactive

\* C30: a step in which the dispatch loop takes an empty line or a line of
\* plain text leaves the session's state, its error note and its pending
\* table as they were, delivers no response to any command, and leaves the
\* loop at its select with no response in hand.
C30_DiscardedLineChangesNothing ==
    [][\A r, q \in Runs, l \in Discards :
          LoopRecv(r, q, l) =>
              /\ sess'[runs[r].s].reportedState = sess[runs[r].s].reportedState
              /\ sess'[runs[r].s].errorMessage = sess[runs[r].s].errorMessage
              /\ sess'[runs[r].s].pendingCommands = sess[runs[r].s].pendingCommands
              /\ cmds' = cmds
              /\ runs'[r].pc = "loop" /\ runs'[r].response = 0]_vars

\* The loop has dropped a line while a command was pending: the session is
\* active without an error note and the command is still pending.
C30_Witness ==
    \E r \in Runs :
        /\ runs[r].discarded /\ runs[r].pc = "loop"
        /\ sess[runs[r].s].reportedState = Active
        /\ sess[runs[r].s].errorMessage = ""
        /\ sess[runs[r].s].pendingCommands # {}
        /\ \A c \in DOMAIN cmds : cmds[c].delivered = 0

\* C31: a step in which the dispatch loop takes a line that starts with "{"
\* and is no decodable response record, or a record whose id is no
\* correlation identifier, sets the session errored with the note of that
\* failure, removes nothing from the pending table, touches no command's
\* record and leaves the loop running.
C31_BadFrameErrorsKeepsPending ==
    [][\A r, q \in Runs, l \in Lines :
          (l.kind \in {"malformed", "badid"} /\ LoopRecv(r, q, l)) =>
              /\ sess'[runs[r].s].reportedState = Errored
              /\ sess'[runs[r].s].errorMessage =
                    (IF l.kind = "malformed" THEN ErrDecodeResponse ELSE ErrParseID)
              /\ sess'[runs[r].s].errorMessage # ""
              /\ sess'[runs[r].s].pendingCommands = sess[runs[r].s].pendingCommands
              /\ cmds' = cmds
              /\ runs'[r].pc = "loop"]_vars

\* A session is errored on such a line while its command is still pending.
C31_Witness ==
    \E r \in Runs :
        /\ runs[r].pc = "loop"
        /\ sess[runs[r].s].reportedState = Errored
        /\ sess[runs[r].s].errorMessage \in {ErrDecodeResponse, ErrParseID}
        /\ sess[runs[r].s].pendingCommands # {}
        /\ \A c \in DOMAIN cmds : cmds[c].removed = 0

\* The errors of a start attempt that ends before its process is spawned.
StartFailures == {ErrAlreadyRunning, ErrExtract, ErrStart}

\* C32: no step of a start attempt up to the spawn changes the session's
\* observed state, its error note or its process handle; an attempt that ends
\* there ends with one of the start failures, has no process, and its handle
\* is never the session's.
C32_FailedStartLeavesSession ==
    [][\A r \in Runs :
          /\ (runs[r].pc \in {"check", "extract", "spawn"} /\ runs'[r].pc # runs[r].pc) =>
                /\ sess'[runs[r].s].reportedState = sess[runs[r].s].reportedState
                /\ sess'[runs[r].s].errorMessage = sess[runs[r].s].errorMessage
                /\ sess'[runs[r].s].cmd = sess[runs[r].s].cmd
                /\ runs'[r].pc = "done" =>
                      /\ runs'[r].err \in StartFailures
                      /\ runs'[r].proc = "none"
          /\ (runs[r].pc = "done" /\ runs[r].err \in StartFailures) =>
                /\ sess'[runs[r].s].cmd # r
                /\ runs'[r] = runs[r]]_vars

\* A start attempt on an errored session has failed at the spawn: the session
\* is still errored, with its note, and has no process handle.
C32_Witness ==
    \E r \in Runs :
        /\ runs[r].pc = "done" /\ runs[r].err = ErrStart
        /\ sess[runs[r].s].reportedState = Errored
        /\ sess[runs[r].s].errorMessage # ""
        /\ sess[runs[r].s].cmd = 0

\* Run r was started for a session one of whose earlier runs has ended
\* with the session inactive or errored.
Restart(r) ==
    \E q \in Runs :
        /\ q < r /\ runs[q].s = runs[r].s
        /\ runs[q].pc = "done" /\ runs[q].final \in {Inactive, Errored}

\* C33: a start after a run that ended inactive or errored passes the state
\* check with a new context; once its extraction and spawn have succeeded it
\* has a working directory of its own, which exists, and a process of its
\* own, and the step that stores its handle sets the session active with
\* that handle and that directory and clears the error note.
C33_RestartRunsSpawnAgain ==
    [][\A r \in Runs :
          /\ (Restart(r) /\ RunCheck(r) /\ sess[runs[r].s].reportedState # Active) =>
                /\ runs'[r].pc = "extract"
                /\ sess'[runs[r].s].ctx = r /\ ~runs'[r].ctxDone
          /\ (Restart(r) /\ StoreHandle(r)) =>
                /\ runs[r].workdir = WorkDirOf(r)
                /\ runs[r].workdir \in fs.dirs
                /\ \A q \in Runs : q # r => runs[q].workdir # runs[r].workdir
                /\ runs[r].proc # "none"
                /\ sess'[runs[r].s].reportedState = Active
                /\ sess'[runs[r].s].errorMessage = ""
                /\ sess'[runs[r].s].cmd = r
                /\ sess'[runs[r].s].workdir = runs[r].workdir
                /\ runs'[r].pc = "loop"]_vars

\* The first run ended with the session errored and the second one has
\* made it active again.
C33_Witness ==
    /\ Len(runs) = 2 /\ runs[1].s = runs[2].s
    /\ runs[1].pc = "done" /\ runs[1].final = Errored
    /\ runs[2].pc = "loop" /\ runs[2].proc = "running"
    /\ sess[runs[2].s].reportedState = Active /\ sess[runs[2].s].cmd = 2
    /\ WorkDirOf(2) \in fs.dirs /\ WorkDirOf(1) \notin fs.dirs

\* C34: a session whose observed state is active has a process handle, and
\* the run that stored the handle is in its dispatch loop.
C34_ActiveHasRun ==
    \A h \in 1..Len(sess) :
        sess[h].reportedState = Active =>
            /\ sess[h].cmd # 0
            /\ runs[sess[h].cmd].s = h
            /\ runs[sess[h].cmd].pc \in {"loop", "deliver"}

---------------------------------------------------------------------------
(* Claims on the two runners *)

LookupOps == {"GetSession", "StartPlugin", "StopPlugin", "Unload"}

\* C12: GetSession, StartPlugin, StopPlugin and Unload given an identifier
\* that is not in the registry return the not-found error and change neither
\* the registry nor any session nor any run, in the subprocess runner and in
\* the WebAssembly runner.
C12_NotFound ==
    [][/\ \A i \in IDs :
            (/\ registry[i] = 0
             /\ \/ LookupCall(i)
                \/ StartPlugin(i)
                \/ StopBegin("StopPlugin", i)
                \/ StopBegin("Unload", i))
              => /\ ret'.err = ErrNotFound /\ ret'.id = i /\ ret'.op \in LookupOps
                 /\ registry' = registry /\ sess' = sess /\ runs' = runs
                 /\ fs' = fs /\ caller' = caller
       /\ (WReplay /\ ret.op \in LookupOps /\ wz.registry[ret.id] = 0)
              => /\ wz'.ret.err = ErrNotFound /\ wz'.ret.op = ret.op
                 /\ wz'.registry = wz.registry /\ wz'.sess = wz.sess]_vars

C12_Witness ==
    /\ ret.op = "Unload" /\ ret.err = ErrNotFound /\ ret.id = "p2"
    /\ wz.ret.op = "Unload" /\ wz.ret.err = ErrNotFound /\ wz.calls = calls
    /\ registry["p1"] # 0 /\ sess[registry["p1"]].reportedState = Active
    /\ wz.registry["p1"] # 0 /\ wz.sess[wz.registry["p1"]].reportedState = Active

\* No run of session h is under way.
NoRunOf(h) == \A r \in Runs : runs[r].s = h => runs[r].pc = "done"

\* C13: StopPlugin on a registered session that no run is under way for
\* (never started, or stopped) returns success and changes neither the
\* session nor the registry nor any run, in both runners; so a second
\* StopPlugin does what the first did.
C13_StopWithoutProcess ==
    [][/\ \A i \in IDs :
            (/\ registry[i] # 0
             /\ sess[registry[i]].cmd = 0
             /\ NoRunOf(registry[i])
             /\ StopBegin("StopPlugin", i))
              => /\ ret'.op = "StopPlugin" /\ ret'.err = NoErr /\ ret'.h = registry[i]
                 /\ registry' = registry /\ sess' = sess /\ runs' = runs
                 /\ fs' = fs /\ caller' = caller
       /\ (/\ WReplay /\ ret.op = "StopPlugin"
           /\ wz.registry[ret.id] # 0
           /\ wz.sess[wz.registry[ret.id]].run = "none")
              => /\ wz'.ret.op = "StopPlugin" /\ wz'.ret.err = NoErr
                 /\ wz'.registry = wz.registry /\ wz'.sess = wz.sess]_vars

C13_Witness ==
    /\ ret.op = "StopPlugin" /\ ret.err = NoErr /\ ret.h # 0
    /\ ret.st = Errored /\ sess[ret.h].reportedState = Errored
    /\ sess[ret.h].cmd = 0 /\ NoRunOf(ret.h) /\ Runs # {}
    /\ wz.ret.op = "StopPlugin" /\ wz.ret.err = NoErr /\ wz.calls = calls
    /\ wz.sess[wz.ret.h].run = "none"

\* C19: after each call given to both runners the registries hold the same
\* sessions (by order of creation) under the same identifiers, GetSessions
\* returns as many, and the call returned the not-found error in both or in
\* neither; Load fails in both or in neither.
C19_BackendsAgree ==
    (caller.pc = "idle" /\ wz.calls = calls) =>
        /\ wz.registry = registry
        /\ Len(wz.sess) = Len(sess)
        /\ \A h \in 1..Len(sess) : wz.sess[h].id = sess[h].id
        /\ Cardinality(WGetSessions(wz)) = Cardinality(GetSessions)
        /\ wz.ret.op = ret.op
        /\ (wz.ret.err = ErrNotFound) <=> (ret.err = ErrNotFound)
        /\ ret.op = "Load" => wz.ret.err = ret.err

C19_Witness ==
    /\ calls = MaxCalls /\ wz.calls = calls /\ caller.pc = "idle"
    /\ ret.op = "Unload" /\ ret.err = NoErr
    /\ registry = EmptyRegistry /\ wz.registry = EmptyRegistry
    /\ Len(sess) = 1 /\ \E r \in Runs : runs[r].status = "killed"

---------------------------------------------------------------------------
(* Claims on the Manager *)

\* The runner's state is what it was.
RunnerUntouched ==
    /\ registry' = registry /\ sess' = sess /\ runs' = runs /\ calls' = calls
    /\ ret' = ret /\ caller' = caller /\ fs' = fs

\* C14 as stated: SetActiveState given a desired value that is neither active
\* nor inactive returns "unknown desired state" and calls no Runner operation.
C14_UnknownDesiredRejected ==
    [][\A i \in IDs, d \in DesiredStates \ {ActiveStateActive, ActiveStateInactive},
          getOK \in BOOLEAN :
            SetActiveState(i, d, getOK) =>
                /\ mgr'.pc = "idle" /\ mgr'.err = ErrUnknownDesired
                /\ RunnerUntouched]_vars

\* C14 amended: SetActiveState given a desired value that is neither active
\* nor inactive calls no Runner operation and returns an error at once: the
\* record store's error when the record cannot be fetched, "unknown desired
\* state" when it can.
C14_UnknownDesiredNoRunnerCall ==
    [][\A i \in IDs, d \in DesiredStates \ {ActiveStateActive, ActiveStateInactive},
          getOK \in BOOLEAN :
            SetActiveState(i, d, getOK) =>
                /\ mgr'.pc = "idle"
                /\ mgr'.err = IF getOK THEN ErrUnknownDesired ELSE ErrGet
                /\ ~mgr'.found /\ ~mgr'.loaded /\ ~mgr'.started
                /\ RunnerUntouched]_vars

C14_Witness ==
    /\ mgr.pc = "idle" /\ mgr.n = 2 /\ mgr.desired = "paused"
    /\ mgr.err = ErrUnknownDesired
    /\ registry[mgr.id] # 0 /\ sess[registry[mgr.id]].reportedState = Active

\* A SetActiveState(id, active) call that fetched the record has returned.
Activated ==
    mgr.pc = "idle" /\ mgr.n > 0 /\ mgr.desired = ActiveStateActive /\ mgr.err # ErrGet

\* C15 as stated: SetActiveState(id, active) calls Runner.Load exactly when
\* GetSession found no session, calls Runner.StartPlugin in both cases, and a
\* session that was found is still the registered one.
C15_LoadIffAbsentThenStart ==
    Activated =>
        /\ mgr.loaded <=> ~mgr.found
        /\ mgr.started
        /\ mgr.found => registry[mgr.id] = mgr.h0

\* C15 amended: Runner.Load is called only when GetSession found no session,
\* and then unless the stored binary cannot be read; Runner.StartPlugin is
\* called exactly when a session was found or Load registered one, otherwise
\* the call returns the error of LoadBinary or of Load; a session that was
\* found is still the registered one.
C15_LoadIfAbsentStartIfPresent ==
    Activated =>
        /\ mgr.loaded => ~mgr.found
        /\ (~mgr.found /\ ~mgr.loaded) => mgr.err = ErrLoadBinary
        /\ mgr.started <=> (mgr.found \/ (mgr.loaded /\ registry[mgr.id] # 0))
        /\ ~mgr.started => mgr.err # NoErr
        /\ mgr.found => registry[mgr.id] = mgr.h0 /\ mgr.h0 # 0

C15_Witness ==
    /\ Activated /\ mgr.n = 2 /\ mgr.twice
    /\ mgr.found /\ ~mgr.loaded /\ mgr.started /\ mgr.err = NoErr
    /\ registry[mgr.id] = mgr.h0 /\ Len(sess) = 1 /\ Len(runs) = 2

\* C16: after two SetActiveState(id, active) calls in a row that returned
\* nil, the session registered under id has at most one child process.
C16_TwiceActiveOneProcess ==
    (Activated /\ mgr.twice /\ mgr.err = NoErr) =>
        /\ registry[mgr.id] # 0
        /\ Cardinality({r \in Runs : /\ runs[r].s = registry[mgr.id]
                                     /\ runs[r].proc = "running"}) <= 1

---------------------------------------------------------------------------
(* Claims on the probe run *)

\* C20: when the probed module has finished without writing a line while
\* readPluginManifest waits in its select, readPluginManifest returns, and
\* what Validate returns is a failure.
C20_ValidateTerminates ==
    (probe.pc = "select" /\ probe.lines = 0 /\ probe.mod = "done")
        ~> (probe.pc = "returned" /\ probe.result # "manifest")

\* C35: when readPluginManifest has returned and the caller has not
\* cancelled, no first line of the module is left in manifestCh: a line that
\* the line reader took is what was returned to Validate.
C35_FirstLineIsReturned ==
    (probe.pc = "returned" /\ ~probe.ctxDone) => probe.manifestCh = <<>>

----------------------------------------------------------------------------
(* Claims on the chat stream *)

\* The places of the events of one type in the stream so far.
Places(type) == {i \in 1..Len(chat.out) : chat.out[i].type = type}

\* Every event of the first type comes before every event of the second.
Precedes(first, second) == \A i \in Places(first), j \in Places(second) : i < j

\* What holds of every stream, ended or not: start comes first, text-start
\* at most once and before every text-delta.
OrderedSoFar ==
    /\ chat.out # <<>> => chat.out[1].type = "start"
    /\ Cardinality(Places("text-start")) <= 1
    /\ Places("text-delta") # {} => Places("text-start") # {}
    /\ Precedes("text-start", "text-delta")

\* The marker is the last event of an ended stream and occurs nowhere else.
DoneLast == Places(DoneMarker) = {Len(chat.out)}

\* C38 as stated: in every stream the handler emits, start comes first,
\* text-start at most once and before every text-delta, text-end exactly
\* when text-start was emitted and before finish, and [DONE] last; after a
\* stream error or a pending client-side tool no finish is emitted.
C38_TextEndWheneverTextStart ==
    (chat.pc = "done" /\ chat.why # "no stream") =>
        /\ OrderedSoFar
        /\ Places("text-end") # {} <=> Places("text-start") # {}
        /\ Precedes("text-end", "finish")
        /\ DoneLast
        /\ chat.why \in {"stream error", "pending"} => Places("finish") = {}

\* C38, amended: in every stream the handler emits, start comes first,
\* text-start at most once and before every text-delta, and [DONE] last and
\* once. When the agent's stream ends by itself, text-end is emitted once
\* exactly when text-start was, after every text-delta, and then finish;
\* when the handler returns on a stream error, a cancelled request, a
\* pending client-side tool or a failed start, neither text-end nor finish
\* is emitted, also after text-start.
C38_EventsOrdered ==
    /\ chat.pc = "loop" =>
            OrderedSoFar /\ Places(DoneMarker) = {} /\ Places("finish") = {}
                         /\ Places("text-end") = {}
    /\ (chat.pc = "done" /\ chat.why # "no stream") =>
            /\ OrderedSoFar
            /\ DoneLast
            /\ IF chat.why = "complete"
               THEN /\ Places("finish") = {Len(chat.out) - 1}
                    /\ Cardinality(Places("text-end")) <= 1
                    /\ Places("text-end") # {} <=> Places("text-start") # {}
                    /\ Precedes("text-delta", "text-end")
                    /\ Precedes("text-end", "finish")
               ELSE Places("finish") = {} /\ Places("text-end") = {}

\* A stream with text that a stream error has cut short.
C38_Witness ==
    /\ chat.pc = "done" /\ chat.why = "stream error"
    /\ Places("text-start") # {} /\ Places("text-delta") # {}
    /\ Places("error") = {Len(chat.out) - 1}
    /\ DoneLast
----------------------------------------------------------------------------
(* Claims on the session storage *)

\* The events Get returned are in ascending order of creation.
GotAscending == \A i, j \in 1..Len(store.got) : i < j => store.got[i].at <= store.got[j].at

\* The stored messages that Get did not return.
NotGot == {m \in store.messages : \A i \in 1..Len(store.got) : store.got[i] # m}

\* C39: Get with NumRecentEvents = n > 0 and no After returns, of a session
\* with more than n stored events, n events in ascending order of creation
\* that are the most recent ones: no event left out is newer than a
\* returned one.
C39_GetReturnsMostRecent ==
    (store.called /\ store.n > 0 /\ store.after = 0
        /\ Cardinality(store.messages) > store.n) =>
            /\ Len(store.got) = store.n
            /\ GotAscending
            /\ \A i \in 1..Len(store.got), m \in NotGot : m.at <= store.got[i].at
=============================================================================
